---- MODULE Spec2Model ----
(***************************************************************************)
(* Model of the scs-build-client build-context archiver (package client), *)
(* the context uploader (client/build_context.go), the multi-arch build    *)
(* orchestrator (internal/app/buildclient), Client.GetOutput, getFiles and *)
(* the choice of the PGP signing key (getPGPSignerOpts).                   *)
(*                                                                         *)
(* Paths are sequences of name components: "a/b/c" is <<"a","b","c">> and  *)
(* the root "." is the empty sequence.  A glob pattern is a sequence of    *)
(* components too, a component being a name or "*".                        *)
(***************************************************************************)
EXTENDS Integers, Sequences, FiniteSets, TLC

VARIABLES
    fsys,       \* the fs.FS handed to the archiver / uploader
    w,          \* archiver.w: the tar writer, [entries, closed]
    archived,   \* archiver.archived: set of paths already written
    werr,       \* error returned by the last WriteFiles call ("" is nil)
    werrArg,    \* what that error carries: a set of at most one [path, flag]
    ncalls,     \* number of WriteFiles calls made so far
    skipped,    \* history: some writeEntry call found its path already archived
    up,         \* the running UploadBuildContext call: [pc, paths, size, digest] and
                \* its history: the tar stream, the service's reply, the PUTs sent
    rw,         \* the spool file of the running upload: [data, off]
    requests,   \* the requests received by the build service, in order
    upRet,      \* history: the results of the finished UploadBuildContext calls
    bearerToken, \* Client.bearerToken ("" for none)
    app,        \* the App: [archsToBuild, dstFileName, LibraryRef, signing, force]
    files,      \* the local files that exist
    pc,         \* where App.Run stands
    idx,        \* index in archsToBuild of the running attempt
    buildContext, \* the digest Run got from uploadBuildContext ("" for none)
    tmpFileName,  \* buildArch's tmpFileName
    errs,       \* build's map of architecture to error
    attempts,   \* history: per attempt, the classification of the build
    bi,         \* buildArtifact's bi: the build info last received from Submit or
                \* GetStatus, with the attempt that received it
    trace,      \* history: the calls made to the services and to the signer
    ret,        \* the error returned by Run
    outcomes,   \* history: the error each finished attempt ended with, in order
    stderr,     \* the lines reportErrs printed to the error stream
    localLog,   \* history: the calls Run made to the local file system, in order
    verified,   \* the line retrieveArtifact printed about the checksum of the
                \* image of the running attempt ("" for none, and between attempts)
    ctx,        \* the caller's context: "live" or "done" (cancelled, deadline passed)
    gout,       \* the running GetOutput call: [pc, ret]
    reader,     \* GetOutput's stream-reading goroutine: [pc, err]
    ws,         \* the websocket: [open, frames, end], the frames the server has yet
                \* to send and the way it ends the stream
    olog,       \* history: what GetOutput and its goroutine did, in order
    definition, \* the parsed definition the service returns to getFiles: its
                \* %files sections, each [args, files]
    fileList,   \* what getFiles returned: [called, files, isNil, err]
    keyring,    \* the entities openpgp.ReadKeyRing reads from the keyring file
    selector,   \* the way the signing key is chosen: [kind, fp, n, tty, input]
    selected    \* what getPGPSignerOpts did: [called, reached, sel, entity, err, panic]

arVars == <<w, archived, werr, werrArg, ncalls, skipped>>

upVars == <<up, rw, requests, upRet, bearerToken>>

appVars == <<app, files, pc, idx, buildContext, tmpFileName, errs, attempts, trace, ret,
            outcomes, stderr, bi, localLog, verified>>

outVars == <<gout, reader, ws, olog>>

defVars == <<definition, fileList>>

keyVars == <<keyring, selector, selected>>

vars == <<fsys, w, archived, werr, werrArg, ncalls, skipped, up, rw, requests, upRet,
          bearerToken,
          app, files, pc, idx, buildContext, tmpFileName, errs, attempts, trace, ret,
          outcomes, stderr, bi, localLog, verified, ctx, gout, reader, ws, olog, definition, fileList,
          keyring, selector, selected>>

(***************************************************************************)
(* Bounds                                                                  *)
(***************************************************************************)
MaxCalls == 3

(***************************************************************************)
(* The file system                                                         *)
(***************************************************************************)
Root == <<>>

\* The paths a fixture file system may hold (those of the repository's tests:
\* a, a/b, a/b/c, c, c/b, plus a sibling a/d).
Universe ==
    { <<"a">>, <<"a", "b">>, <<"a", "b", "c">>, <<"a", "d">>,
      <<"c">>, <<"c", "b">> }

\* "reg": regular file; "symlink": symbolic link to a regular file;
\* "pipe": named pipe; "blockdev": device; "chardev": character device;
\* "regerr": regular file of non-zero size whose content cannot be read;
\* "none": no such path.
Kinds == {"dir", "reg", "symlink", "pipe", "blockdev", "chardev", "regerr"}

NameRank == ("a" :> 1) @@ ("b" :> 2) @@ ("c" :> 3) @@ ("d" :> 4)

\* path.Dir
Dir(name) == IF Len(name) <= 1 THEN Root ELSE SubSeq(name, 1, Len(name) - 1)

\* fs.Stat: the kind of a path, "none" when it does not exist.
Stat(fs, name) ==
    IF name = Root THEN "dir"
    ELSE IF name \in Universe THEN fs[name]
    ELSE "none"

ValidFS(fs) ==
    \A p \in Universe : fs[p] # "none" => Stat(fs, Dir(p)) = "dir"

\* The fixture file systems: the devices are at a/b, where the repository's
\* tests have them.
FileSystems ==
    { fs \in [Universe -> Kinds \cup {"none"}] :
        /\ ValidFS(fs)
        /\ \A p \in Universe : fs[p] \in {"blockdev", "chardev"} => p = <<"a", "b">> }

\* The entries of directory d.
Children(fs, d) ==
    { p \in Universe : Len(p) = Len(d) + 1 /\ Dir(p) = d /\ fs[p] # "none"
                       /\ Stat(fs, d) = "dir" }

RECURSIVE SortByName(_)
SortByName(S) ==
    IF S = {} THEN <<>>
    ELSE LET m == CHOOSE p \in S :
                    \A q \in S : NameRank[p[Len(p)]] <= NameRank[q[Len(q)]]
         IN  <<m>> \o SortByName(S \ {m})

\* fs.ReadDir: the entries of d sorted by file name.
ReadDir(fs, d) == SortByName(Children(fs, d))

(***************************************************************************)
(* fs.Glob                                                                 *)
(***************************************************************************)
hasMeta(pattern) == \E i \in 1..Len(pattern) : pattern[i] = "*"

\* path.Match of one component
Match(pat, n) == pat = "*" \/ pat = n

RECURSIVE FilterMatch(_, _)
FilterMatch(names, pat) ==
    IF names = <<>> THEN <<>>
    ELSE (IF Match(pat, Head(names)[Len(Head(names))]) THEN <<Head(names)>> ELSE <<>>)
         \o FilterMatch(Tail(names), pat)

\* glob(fs, dir, pattern, matches): the entries of dir that match.
globDir(fs, d, pat) == FilterMatch(ReadDir(fs, d), pat)

RECURSIVE Glob(_, _)
RECURSIVE globAll(_, _, _)
globAll(fs, ds, pat) ==
    IF ds = <<>> THEN <<>>
    ELSE globDir(fs, Head(ds), pat) \o globAll(fs, Tail(ds), pat)

Glob(fs, pattern) ==
    IF ~hasMeta(pattern)
    THEN IF Stat(fs, pattern) # "none" THEN <<pattern>> ELSE <<>>
    ELSE LET dir  == SubSeq(pattern, 1, Len(pattern) - 1)
             file == pattern[Len(pattern)]
         IN  IF ~hasMeta(dir) THEN globDir(fs, dir, file)
             ELSE globAll(fs, Glob(fs, dir), file)

(***************************************************************************)
(* The archiver.  An archiver value is [entries, closed, archived, err]:   *)
(* entries is the sequence of tar members written so far, each             *)
(* [name, type, full]; full is FALSE for a member whose header was written *)
(* and whose content was not.                                              *)
(***************************************************************************)
newArchiver ==
    [entries |-> <<>>, closed |-> FALSE, archived |-> {}, err |-> "", errArg |-> {},
     skipped |-> FALSE]

\* tar.FileInfoHeader: the type flag of the header made from the file info.
headerTypeflag(k) ==
    CASE k = "dir"      -> "dir"
      [] k = "symlink"  -> "symlink"
      [] k = "pipe"     -> "fifo"
      [] k = "blockdev" -> "block"
      [] k = "chardev"  -> "char"
      [] OTHER          -> "reg"

\* A switch over the type flag that lets every type through.
supportedAll(flag) == TRUE

\* writeEntry's switch over the type flag: the cases other than default.
supported(flag) == flag \in {"reg", "symlink", "dir"}

\* A switch that leaves the type flag of a symbolic link as it is.
adjustTypeflagKeep(flag) == flag

\* writeEntry's switch: symbolic links are always followed.
adjustTypeflag(flag) == IF flag = "symlink" THEN "reg" ELSE flag

\* The error unsupported file type for name, with the type flag.
unsupportedErr(ar, name, flag) ==
    [ar EXCEPT !.err = "unsupported file type",
               !.errArg = {[path |-> name, flag |-> flag]}]

\* tar.Writer.WriteHeader refuses when the writer is closed or when the
\* previous member still misses content.
headerErr(ar) ==
    IF ar.closed THEN "tar: write after close"
    ELSE IF ar.entries # <<>> /\ ~ar.entries[Len(ar.entries)].full
         THEN "tar: missed writing bytes"
         ELSE ""

\* A deferred function that records the path whatever writeEntry returns.
recordedAlways(paths, name, err) == paths \cup {name}

\* writeEntry's deferred function: the path is recorded when the error
\* writeEntry returns is nil.
recorded(paths, name, err) == IF err = "" THEN paths \cup {name} ELSE paths

\* writeEntry without the look-up of the archived set.
writeEntryNoSkip(ar, name) ==
    LET k == Stat(fsys, name) IN
    IF k = "none" THEN [ar EXCEPT !.err = "not exist"]
    ELSE IF ~supported(headerTypeflag(k)) THEN unsupportedErr(ar, name, headerTypeflag(k))
    ELSE IF headerErr(ar) # "" THEN [ar EXCEPT !.err = headerErr(ar)]
    ELSE IF k = "regerr"
         THEN [ar EXCEPT !.entries = Append(@, [name |-> name, type |-> "reg", full |-> FALSE]),
                         !.archived = recorded(@, name, "read error"),
                         !.err = "read error"]
         ELSE [ar EXCEPT !.entries = Append(@, [name |-> name,
                                                type |-> adjustTypeflag(headerTypeflag(k)),
                                                full |-> TRUE]),
                         !.archived = recorded(@, name, ""),
                         !.err = ""]

writeEntry(ar, name) ==
    IF name \in ar.archived THEN [ar EXCEPT !.err = "", !.skipped = TRUE]
    ELSE LET k == Stat(fsys, name) IN
         IF k = "none" THEN [ar EXCEPT !.err = "not exist"]
         ELSE IF ~supported(headerTypeflag(k))
              THEN unsupportedErr(ar, name, headerTypeflag(k))
         ELSE IF headerErr(ar) # "" THEN [ar EXCEPT !.err = headerErr(ar)]
         ELSE IF k = "regerr"
              THEN [ar EXCEPT !.entries = Append(@, [name |-> name, type |-> "reg", full |-> FALSE]),
                              !.archived = recorded(@, name, "read error"),
                              !.err = "read error"]
              ELSE [ar EXCEPT !.entries = Append(@, [name |-> name,
                                                     type |-> adjustTypeflag(headerTypeflag(k)),
                                                     full |-> TRUE]),
                              !.archived = recorded(@, name, ""),
                              !.err = ""]

\* fs.WalkDir with walkDirFunc: pre-order, entries in ReadDir order, the
\* walk stops at the first error; "." itself is not written.
RECURSIVE walkDir(_, _)
RECURSIVE walkList(_, _)
walkList(ar, names) ==
    IF names = <<>> THEN ar
    ELSE LET a1 == walkDir(ar, Head(names)) IN
         IF a1.err # "" THEN a1 ELSE walkList(a1, Tail(names))

walkDir(ar, name) ==
    LET a1 == IF name = Root THEN [ar EXCEPT !.err = ""] ELSE writeEntry(ar, name) IN
    IF a1.err # "" \/ Stat(fsys, name) # "dir" THEN a1
    ELSE walkList(a1, ReadDir(fsys, name))

\* writeDirAll that writes the directory and none of its parents.
writeDirOnly(ar, name) ==
    IF name = Root THEN [ar EXCEPT !.err = ""]
    ELSE IF name \in ar.archived THEN [ar EXCEPT !.err = ""]
    ELSE writeEntry(ar, name)

RECURSIVE writeDirAll(_, _)
writeDirAll(ar, name) ==
    IF name = Root THEN [ar EXCEPT !.err = ""]
    ELSE IF name \in ar.archived THEN [ar EXCEPT !.err = ""]
    ELSE LET a1 == writeDirAll(ar, Dir(name)) IN
         IF a1.err # "" THEN a1 ELSE writeEntry(a1, name)

\* writeName that walks the content of a matched directory and leaves the
\* directory itself out.
writeNameContentOnly(ar, name) ==
    LET a1 == writeDirAll(ar, Dir(name)) IN
    IF a1.err # "" THEN a1
    ELSE IF Stat(fsys, name) = "none" THEN [a1 EXCEPT !.err = "not exist"]
    ELSE IF Stat(fsys, name) = "dir" THEN walkList(a1, ReadDir(fsys, name))
    ELSE writeEntry(a1, name)

\* The body of the loop of WriteFiles for one matched name.
writeName(ar, name) ==
    LET a1 == writeDirAll(ar, Dir(name)) IN
    IF a1.err # "" THEN a1
    ELSE IF Stat(fsys, name) = "none" THEN [a1 EXCEPT !.err = "not exist"]
    ELSE IF Stat(fsys, name) = "dir" THEN walkDir(a1, name)
    ELSE writeEntry(a1, name)

RECURSIVE writeNames(_, _)
writeNames(ar, names) ==
    IF names = <<>> THEN [ar EXCEPT !.err = ""]
    ELSE LET a1 == writeName(ar, Head(names)) IN
         IF a1.err # "" THEN a1 ELSE writeNames(a1, Tail(names))

\* WriteFiles that takes a pattern without a match for nothing to write.
WriteFilesEmptyOk(ar, pattern) ==
    writeNames(ar, Glob(fsys, pattern))

WriteFiles(ar, pattern) ==
    LET names == Glob(fsys, pattern) IN
    IF names = <<>>
    THEN [ar EXCEPT !.err = "not exist", !.errArg = {[path |-> pattern, flag |-> ""]}]
    ELSE writeNames(ar, names)

\* archiver.Close
Close(ar) == [ar EXCEPT !.closed = TRUE, !.err = headerErr(ar)]

(***************************************************************************)
(* Specification of the archiver alone: any sequence of WriteFiles calls,  *)
(* then Close, over any fixture file system.                               *)
(***************************************************************************)
Patterns ==
    { Root, <<"*">>, <<"a">>, <<"a", "b">>, <<"a", "b", "c">>, <<"a", "*">>,
      <<"*", "b">>, <<"c">>, <<"a", "d">> }

theArchiver ==
    [entries |-> w.entries, closed |-> w.closed, archived |-> archived, err |-> "",
     errArg |-> {}, skipped |-> skipped]

upIdle ==
    [pc |-> "idle", paths |-> <<>>, size |-> 0, digest |-> "", tar |-> <<>>,
     reply |-> "", nput |-> 0]

\* An error value: its message, the attempt that made it, and whether
\* errors.Is finds the context's error in its chain.  NoErr is nil.
NoErr == [msg |-> "", idx |-> 0, cancel |-> FALSE]

AppQuiet ==
    /\ app = [archsToBuild |-> <<>>, dstFileName |-> <<>>, LibraryRef |-> "",
              signing |-> FALSE, force |-> FALSE]
    /\ files = {}
    /\ pc = "done"
    /\ idx = 0
    /\ buildContext = ""
    /\ tmpFileName = <<>>
    /\ errs = <<>>
    /\ attempts = <<>>
    /\ trace = <<>>
    /\ ret = NoErr
    /\ outcomes = <<>>
    /\ stderr = {}
    /\ bi = [isComplete |-> FALSE, imageSize |-> 0, received |-> FALSE, idx |-> 0]
    /\ localLog = <<>>
    /\ verified = ""

\* getFiles was not called.
NotCalled == [called |-> FALSE, files |-> <<>>, isNil |-> TRUE, err |-> ""]

DefQuiet ==
    /\ definition = <<>>
    /\ fileList = NotCalled

\* A nil *openpgp.Entity.
Nil == [fp |-> "", priv |-> FALSE, enc |-> FALSE]

\* What an entity selection function returns: (entity, error), or a panic.
Selection(e, err, panic) == [entity |-> e, err |-> err, panic |-> panic]

\* getPGPSignerOpts was not called.
NotSelected ==
    [called |-> FALSE, reached |-> FALSE, sel |-> Selection(Nil, "", FALSE),
     entity |-> Nil, err |-> "", panic |-> FALSE]

KeyQuiet ==
    /\ keyring = <<>>
    /\ selector = [kind |-> "", fp |-> "", n |-> 0, tty |-> FALSE, input |-> ""]
    /\ selected = NotSelected

OutQuiet ==
    /\ gout = [pc |-> "returned", ret |-> ""]
    /\ reader = [pc |-> "idle", err |-> ""]
    /\ ws = [open |-> FALSE, frames |-> <<>>, end |-> "silent"]
    /\ olog = <<>>

UpQuiet ==
    /\ up = upIdle
    /\ rw = [data |-> <<>>, off |-> 0]
    /\ requests = <<>>
    /\ upRet = <<>>
    /\ bearerToken = ""

ArInit ==
    /\ fsys \in FileSystems
    /\ w = [entries |-> <<>>, closed |-> FALSE]
    /\ archived = {}
    /\ werr = ""
    /\ werrArg = {}
    /\ ncalls = 0
    /\ skipped = FALSE
    /\ UpQuiet
    /\ AppQuiet
    /\ OutQuiet
    /\ DefQuiet
    /\ KeyQuiet
    /\ ctx = "live"

ArWriteFiles ==
    \E pattern \in Patterns :
        /\ ncalls < MaxCalls
        /\ \E r \in {WriteFiles(theArchiver, pattern)} :
            /\ w' = [entries |-> r.entries, closed |-> r.closed]
            /\ archived' = r.archived
            /\ werr' = r.err
            /\ werrArg' = r.errArg
            /\ skipped' = r.skipped
        /\ ncalls' = ncalls + 1
        /\ UNCHANGED <<fsys, defVars, keyVars, upVars, appVars, outVars, ctx>>

ArClose ==
    /\ ~w.closed
    /\ w' = [w EXCEPT !.closed = TRUE]
    /\ werr' = Close(theArchiver).err
    /\ werrArg' = {}
    /\ UNCHANGED <<fsys, defVars, keyVars, archived, ncalls, skipped, upVars, appVars, outVars, ctx>>

ArNext == ArWriteFiles \/ ArClose

ArSpec == ArInit /\ [][ArNext]_vars

(***************************************************************************)
(* The context uploader.  Byte streams are sequences of tokens.            *)
(***************************************************************************)
MaxUploads == 2

\* The bytes a tar member occupies: its header block, then its content.
memberBytes(e) ==
    <<[hdr |-> e.name, typeflag |-> e.type]>>
    \o (IF e.type = "reg" /\ e.full THEN <<[content |-> e.name]>> ELSE <<>>)

RECURSIVE membersBytes(_)
membersBytes(es) ==
    IF es = <<>> THEN <<>> ELSE memberBytes(Head(es)) \o membersBytes(Tail(es))

\* The uncompressed tar stream of an archiver; the trailer is there once the
\* archiver was closed without error.
tarBytes(ar) ==
    membersBytes(ar.entries) \o (IF ar.closed /\ ar.err = "" THEN <<"tar-trailer">> ELSE <<>>)

\* gzip.Writer: header, the deflated stream, then the CRC-32 and length of
\* the uncompressed data.
gzipBytes(b) ==
    <<"gzip-header">> \o [i \in 1..Len(b) |-> [deflate |-> b[i]]]
    \o <<[crc32 |-> b, isize |-> Len(b)]>>

\* fmt.Sprintf("sha256.%x", h.Sum(nil)) of a hash that was fed b.
sha256Digest(b) == [alg |-> "sha256", sum |-> b]

RECURSIVE writePaths(_, _)
writePaths(ar, paths) ==
    IF paths = <<>> THEN [ar EXCEPT !.err = ""]
    ELSE LET a1 == WriteFiles(ar, Head(paths)) IN
         IF a1.err # "" THEN a1 ELSE writePaths(a1, Tail(paths))

\* writeArchive: the tar stream of paths and the error returned; the
\* deferred ar.Close() and gw.Close() run on every path.
writeArchive(paths) ==
    LET a1 == writePaths(newArchiver, paths)
        a2 == Close(a1)
    IN  [tar |-> tarBytes(a2), err |-> a1.err]

\* The hash fed ahead of the gzip writer.
hashInputTar(tar, gz) == tar

\* What io.MultiWriter(rw, h) hands to the hash h, given the tar stream and
\* the gzip stream made of it.
hashInput(tar, gz) == gz

\* getBuildContextUploadLocation: the service's reply to the result.
getBuildContextUploadLocation(reply) ==
    CASE reply = "transport_error" -> [loc |-> "", err |-> "transport error"]
      [] reply = "http_error"      -> [loc |-> "", err |-> "http error"]
      [] reply = "no_location"     -> [loc |-> "", err |-> "build context already present"]
      [] OTHER                     -> [loc |-> "/upload-here", err |-> ""]

\* afterLocation that takes "already present" for a failure.
afterLocationNoShortCircuit(res, digest) ==
    IF res.err # ""
    THEN [next |-> "return", digest |-> "",
          err |-> "failed to get build context upload location"]
    ELSE [next |-> "put", digest |-> digest, err |-> ""]

\* What uploadBuildContext does with the result of the location request.
afterLocation(res, digest) ==
    IF res.err = "build context already present"
    THEN [next |-> "return", digest |-> digest, err |-> ""]
    ELSE IF res.err # ""
    THEN [next |-> "return", digest |-> "",
          err |-> "failed to get build context upload location"]
    ELSE [next |-> "put", digest |-> digest, err |-> ""]

\* No seek: the offset stays at the end of the archive.
seekNone(f) == f

\* rw.Seek(0, io.SeekStart) before the PUT.
seekStart(f) == [f EXCEPT !.off = 0]

\* The bytes a reader of the spool file delivers from its current offset.
readAll(f) == SubSeq(f.data, f.off + 1, Len(f.data))

UpPaths ==
    { <<>>, <<Root>>, <<<<"*">>>>, <<<<"b">>>>, <<<<"a", "b">>>>,
      <<<<"a", "b">>, <<"c", "b">>>> }

\* The file systems of the uploads: a is a directory, a/d is absent or
\* cannot be archived, the other paths are absent or can be archived; the
\* symbolic links are at c/b.
UpFileSystems ==
    { fs \in { [p \in Universe |->
                  IF p = <<"a">> THEN "dir" ELSE IF p = <<"a", "d">> THEN k ELSE g[p]] :
                k \in {"none", "pipe", "regerr"},
                g \in [Universe \ {<<"a">>, <<"a", "d">>} ->
                         {"none", "dir", "reg", "symlink"}] } :
        /\ ValidFS(fs)
        /\ \A p \in Universe : fs[p] = "symlink" => p = <<"c", "b">> }

ArQuiet ==
    /\ w = [entries |-> <<>>, closed |-> FALSE]
    /\ archived = {}
    /\ werr = ""
    /\ werrArg = {}
    /\ ncalls = 0
    /\ skipped = FALSE

\* The tokens a client is made with: none, or one.
Tokens == {"", "token-1"}

\* http.Header.Set and http.Header.Del over a set of [name, value].
headerDel(h, name) == { x \in h : x.name # name }

headerSet(h, name, value) == headerDel(h, name) \cup {[name |-> name, value |-> value]}

\* Client.setRequestHeaders, as newRequest calls it on a new request.
setRequestHeaders(token) ==
    IF token # "" THEN headerSet({}, "Authorization", <<"BEARER", token>>) ELSE {}

\* The headers of the request for the upload location.
locationHeaders(token) ==
    headerSet(setRequestHeaders(token), "Content-Type", <<"application/json">>)

\* A PUT that keeps the headers newRequest gave it.
putHeadersKeepAuthorization(token) ==
    headerSet(setRequestHeaders(token), "Content-Type", <<"application/octet-stream">>)

\* The headers of putBuildContext's request.
putHeaders(token) ==
    headerDel(headerSet(setRequestHeaders(token), "Content-Type",
                        <<"application/octet-stream">>),
              "Authorization")

\* A check of the paths that lets the empty list through.
noPathsNever(paths) == FALSE

\* UploadBuildContext's check: len(paths) == 0.
noPaths(paths) == Len(paths) = 0

UpInit ==
    /\ fsys \in UpFileSystems
    /\ ArQuiet
    /\ up = upIdle
    /\ rw = [data |-> <<>>, off |-> 0]
    /\ requests = <<>>
    /\ upRet = <<>>
    /\ bearerToken \in Tokens
    /\ AppQuiet
    /\ OutQuiet
    /\ DefQuiet
    /\ KeyQuiet
    /\ ctx = "live"

upResult(u, digest, err) ==
    [paths |-> u.paths, tar |-> u.tar, declared |-> u.digest,
     digest |-> digest, err |-> err, reply |-> u.reply, puts |-> u.nput, tmp |-> TRUE,
     sent |-> 1 + u.nput]

\* UploadBuildContext up to its first request: the check of paths, the
\* temporary file, writeArchive, the size and the digest, and the POST.
UpStart ==
    \E paths \in UpPaths :
        /\ up.pc = "idle"
        /\ Len(upRet) < MaxUploads
        /\ IF noPaths(paths)
           THEN /\ upRet' = Append(upRet, [paths |-> paths, tar |-> <<>>, declared |-> "",
                                           digest |-> "", err |-> "no paths specified",
                                           reply |-> "", puts |-> 0, tmp |-> FALSE,
                                           sent |-> 0])
                /\ UNCHANGED <<up, rw, requests>>
           ELSE \E a \in {writeArchive(paths)} :
                LET gz == gzipBytes(a.tar)
                    f  == [data |-> gz, off |-> Len(gz)]
                    d  == sha256Digest(hashInput(a.tar, gz))
                IN  /\ rw' = f
                    /\ IF a.err # ""
                       THEN /\ upRet' = Append(upRet, [paths |-> paths, tar |-> a.tar,
                                                       declared |-> "", digest |-> "",
                                                       err |-> "failed to write archive",
                                                       reply |-> "", puts |-> 0,
                                                       tmp |-> TRUE, sent |-> 0])
                            /\ UNCHANGED <<up, requests>>
                       ELSE /\ up' = [pc |-> "location", paths |-> paths, size |-> f.off,
                                      digest |-> d, tar |-> a.tar, reply |-> "", nput |-> 0]
                            /\ requests' = Append(requests,
                                   [method |-> "POST", path |-> "v1/build-context",
                                    header |-> locationHeaders(bearerToken),
                                    size |-> f.off, digest |-> d])
                            /\ UNCHANGED upRet
        /\ UNCHANGED <<fsys, defVars, keyVars, bearerToken, arVars, appVars, outVars, ctx>>

\* The reply to the upload-location request, up to the PUT or the return.
UpLocation ==
    \E reply \in {"location", "no_location", "http_error", "transport_error"} :
        /\ up.pc = "location"
        /\ LET res == getBuildContextUploadLocation(reply)
               nxt == afterLocation(res, up.digest)
           IN  IF nxt.next = "return"
               THEN /\ upRet' = Append(upRet,
                                  upResult([up EXCEPT !.reply = reply], nxt.digest, nxt.err))
                    /\ up' = upIdle
                    /\ UNCHANGED <<rw, requests>>
               ELSE /\ rw' = seekStart(rw)
                    /\ requests' = Append(requests,
                           [method |-> "PUT", path |-> res.loc,
                            header |-> putHeaders(bearerToken), body |-> readAll(rw'),
                            contentLength |-> up.size])
                    /\ up' = [up EXCEPT !.pc = "put", !.reply = reply, !.nput = @ + 1]
                    /\ UNCHANGED upRet
        /\ UNCHANGED <<fsys, defVars, keyVars, bearerToken, arVars, appVars, outVars, ctx>>

\* The reply to the PUT, and the return of uploadBuildContext.
UpPut ==
    \E reply \in {"ok", "http_error", "transport_error"} :
        /\ up.pc = "put"
        /\ upRet' = Append(upRet,
               IF reply = "ok" THEN upResult(up, up.digest, "")
               ELSE upResult(up, "", "failed to upload build context"))
        /\ up' = upIdle
        /\ UNCHANGED <<fsys, defVars, keyVars, bearerToken, arVars, rw, requests, appVars, outVars, ctx>>

UpNext == UpStart \/ UpLocation \/ UpPut

UpSpec == UpInit /\ [][UpNext]_vars

(***************************************************************************)
(* The multi-architecture build orchestrator (App.Run).  File names are    *)
(* sequences of parts: "" is <<>>, "out" is <<"out">>, "out-amd64" is      *)
(* <<"out", "-", "amd64">>.                                                *)
(***************************************************************************)
MaxArchs == 2

Archs == {"amd64", "arm64"}

\* The lists of architectures, up to the exchange of the two names.
ArchLists == { l \in UNION { [1..n -> Archs] : n \in 1..MaxArchs } : l[1] = "amd64" }

ImageSizes == {-1, 0, 7}

\* New: a destination is a library ref, a local file name, or absent.  The
\* force flag is read only when a local file name is set.
Apps ==
    { ap \in { [archsToBuild |-> a, dstFileName |-> d.f, LibraryRef |-> d.l,
                signing |-> sg, force |-> fo] :
                  a \in ArchLists,
                  d \in { [f |-> <<>>, l |-> ""], [f |-> <<"out">>, l |-> ""],
                          [f |-> <<>>, l |-> "library:ref"] },
                  sg \in BOOLEAN, fo \in BOOLEAN } :
        ap.dstFileName = <<>> => ~ap.force }

\* appendFileSuffix that returns the name as it is.
appendFileSuffixNone(name, suffix, appendSuffix) == name

appendFileSuffix(name, suffix, appendSuffix) ==
    IF ~appendSuffix THEN name ELSE name \o <<"-", suffix>>

\* directLibraryUpload that looks at the file name only.
directLibraryUploadByName(filename) == filename = <<>>

directLibraryUpload(filename) == app.LibraryRef # "" \/ filename = <<>>

\* reportErrs returning the aggregate error for any number of failures.
reportErrsAggregate(es) ==
    IF \A a \in DOMAIN es : es[a] = NoErr THEN NoErr
    ELSE [msg |-> "failed to build images", idx |-> 0, cancel |-> FALSE]

\* reportErrs: nil, the only error, or the aggregate error.
reportErrs(es) ==
    LET failed == { a \in DOMAIN es : es[a] # NoErr } IN
    IF failed = {} THEN NoErr
    ELSE IF Cardinality(failed) = 1 THEN es[CHOOSE a \in failed : TRUE]
    ELSE [msg |-> "failed to build images", idx |-> 0, cancel |-> FALSE]

\* reportErrs: the lines it prints, one for each entry of the map when the
\* map holds more than one.
reportErrsLines(es) ==
    LET failed == { a \in DOMAIN es : es[a] # NoErr } IN
    IF Cardinality(failed) > 1 THEN { [arch |-> a, err |-> es[a]] : a \in failed } ELSE {}

\* The locals of build's loop and of buildArch for attempt i.
archOf(i) == app.archsToBuild[i]

dstFileNameOf(i) ==
    appendFileSuffix(app.dstFileName, archOf(i), Len(app.archsToBuild) > 1)

libraryRef == app.LibraryRef

signed == app.signing

\* buildArch handing the library reference to the build service for signed
\* builds too.
tmpLibraryRefSigned(i) ==
    IF libraryRef # "" /\ dstFileNameOf(i) = <<>> THEN libraryRef ELSE ""

tmpLibraryRefOf(i) ==
    IF ~signed /\ libraryRef # "" /\ dstFileNameOf(i) = <<>> THEN libraryRef ELSE ""

initialTmpFileName(i) ==
    IF ~signed /\ libraryRef = "" /\ dstFileNameOf(i) # <<>> THEN dstFileNameOf(i) ELSE <<>>

\* The cause of the error a call made with ctx returned: the context's error
\* when the context is done, an error of the service otherwise ("" for nil).
causeOf(ok) == IF ok THEN "" ELSE IF ctx = "done" THEN "context" ELSE "other"

\* An error built with %v in place of %w: the cause is not in its chain.
wrappedNever(cause) == FALSE

\* fmt.Errorf("...: %w", err): errors.Is finds the context's error in the new
\* error's chain exactly when err, the cause, is the context's error.
wrapped(cause) == cause = "context"

\* A submit that names the build context for the first architecture only.
submitRequestFirstOnly(i, digest, ref, ok) ==
    [op |-> "submit", idx |-> i, ok |-> ok, arch |-> archOf(i),
     digest |-> IF i = 1 THEN digest ELSE "", ref |-> ref, cause |-> causeOf(ok)]

\* buildArtifact's build options: the request Submit sends.
submitRequest(i, digest, ref, ok) ==
    [op |-> "submit", idx |-> i, ok |-> ok, arch |-> archOf(i), digest |-> digest, ref |-> ref,
     cause |-> causeOf(ok)]

Ev(op, ok) ==
    [op |-> op, idx |-> idx, ok |-> ok, arch |-> IF idx = 0 THEN "" ELSE archOf(idx),
     digest |-> "", ref |-> "", cause |-> causeOf(ok)]

\* A call that does not take the context (the signer, os.Rename).
LocalStep(op, ok) == [Ev(op, ok) EXCEPT !.cause = IF ok THEN "" ELSE "other"]

\* The build info of a build just submitted: no status received yet.
NoStatus == [isComplete |-> FALSE, imageSize |-> 0, received |-> FALSE, idx |-> 0]

\* buildArtifact's test of the status it received: the error it returns.
classify(info) == IF info.imageSize <= 0 THEN "failed to build image" ELSE ""

\* buildArtifact going on to GetStatus whatever GetOutput returned.
afterOutputIgnoreErr(ok) == "status"

\* What buildArtifact does after GetOutput returned.
afterOutput(ok) == IF ok THEN "status" ELSE "fail"

AppInit ==
    /\ fsys \in {[p \in Universe |-> "none"]}
    /\ ArQuiet
    /\ UpQuiet
    /\ app \in Apps
    /\ files \in SUBSET { appendFileSuffix(app.dstFileName, app.archsToBuild[i],
                                           Len(app.archsToBuild) > 1) :
                            i \in 1..Len(app.archsToBuild) }
    /\ <<>> \notin files
    /\ Cardinality(files) <= 1
    /\ pc = "preflight"
    /\ idx = 0
    /\ buildContext = ""
    /\ tmpFileName = <<>>
    /\ errs = [a \in Archs |-> NoErr]
    /\ attempts = [i \in 1..Len(app.archsToBuild) |-> [class |-> ""]]
    /\ bi = NoStatus
    /\ trace = <<>>
    /\ ret = NoErr
    /\ outcomes = <<>>
    /\ stderr = {}
    /\ localLog = <<>>
    /\ verified = ""
    /\ ctx = "live"
    /\ OutQuiet
    /\ DefQuiet
    /\ KeyQuiet

\* The outcomes of a request made with ctx: net/http fails a request whose
\* context is done.
Net == IF ctx = "done" THEN {FALSE} ELSE BOOLEAN

\* An error made at Run's level; cancel tells whether it wraps the context's.
RunErr(msg, c) == [msg |-> msg, idx |-> 0, cancel |-> c]

Goto(p) == pc' = p /\ UNCHANGED <<idx, tmpFileName, errs, ret, outcomes, stderr, verified>>

\* Run returns e.
Finish(e) ==
    pc' = "done" /\ ret' = e /\ UNCHANGED <<idx, tmpFileName, errs, outcomes, stderr, verified>>

\* The attempt ended with e (NoErr for none) and left the map es: the loop
\* of build moves to the next architecture, or ends with reportErrs.
Advance(es, e) ==
    /\ errs' = es
    /\ outcomes' = Append(outcomes, e)
    /\ verified' = ""
    /\ IF idx < Len(app.archsToBuild)
       THEN /\ idx' = idx + 1
            /\ tmpFileName' = initialTmpFileName(idx + 1)
            /\ pc' = "submit"
            /\ UNCHANGED <<ret, stderr>>
       ELSE /\ pc' = "done"
            /\ ret' = reportErrs(es)
            /\ stderr' = reportErrsLines(es)
            /\ UNCHANGED <<idx, tmpFileName>>

\* buildArch returned an error: errs[arch] = err; continue.
Fail(msg, c) ==
    LET e == [msg |-> msg, idx |-> idx, cancel |-> c]
    IN  Advance([errs EXCEPT ![archOf(idx)] = e], e)

\* buildArch returned no error: the rest of the loop body of build.
Succeed ==
    IF dstFileNameOf(idx) = <<>> THEN Advance(errs, NoErr) ELSE Goto("lstat")

\* retrieveArtifact returned nil after it printed line: buildArch goes on to
\* sign the file, or returns.
Retrieved(line) ==
    IF ~signed /\ dstFileNameOf(idx) = <<>> THEN Advance(errs, NoErr)
    ELSE /\ pc' = IF signed THEN "sign" ELSE "lstat"
         /\ verified' = line
         /\ UNCHANGED <<idx, tmpFileName, errs, ret, outcomes, stderr>>

\* buildArch after buildArtifact returned no error, with tmpFileName tmp.
AfterArtifact ==
    IF ~signed
    THEN IF tmpFileName = <<>> THEN Succeed ELSE Goto("download")
    ELSE IF dstFileNameOf(idx) # <<>> \/ libraryRef # "" THEN Goto("mktemp")
         ELSE Goto("download")

\* A call to the local file system made for the running attempt (0: by Run
\* before the loop).
LocalEv(op, name, res) == [op |-> op, name |-> name, idx |-> idx, res |-> res]

\* A pre-flight loop that looks at the first architecture's name only.
preflightNamesFirstOnly == <<dstFileNameOf(1)>>

\* The names Run's loop over archsToBuild hands to os.Stat, in order.
preflightNames == [i \in 1..Len(app.archsToBuild) |-> dstFileNameOf(i)]

\* os.Stat(fn): its error is a not-exist error or is not.
statResult(fn) == IF fn \in files THEN "exists" ELSE "absent"

\* Run: the check of the destination files; the loop returns at the first
\* name that exists.
AppPreflight ==
    /\ pc = "preflight"
    /\ IF ~app.force /\ app.dstFileName # <<>>
       THEN LET names == preflightNames
                hits  == { i \in 1..Len(names) : statResult(names[i]) = "exists" }
                last  == IF hits = {} THEN Len(names)
                         ELSE CHOOSE i \in hits : \A j \in hits : i <= j
            IN  /\ localLog' = localLog \o
                       [i \in 1..last |-> LocalEv("stat", names[i], statResult(names[i]))]
                /\ IF hits # {}
                   THEN Finish(RunErr("destination file already exists", FALSE))
                   ELSE Goto("getdef")
       ELSE /\ Goto("getdef")
            /\ UNCHANGED localLog
    /\ UNCHANGED <<fsys, defVars, keyVars, arVars, upVars, outVars, ctx, bi, app, files, buildContext, attempts, trace>>

AppGetBuildDef ==
    \E ok \in BOOLEAN :
        /\ pc = "getdef"
        /\ IF ok THEN Goto("getfiles")
           ELSE Finish(RunErr("unable to get build definition", FALSE))
        /\ UNCHANGED <<fsys, defVars, keyVars, localLog, arVars, upVars, outVars, ctx, bi, app, files, buildContext, attempts, trace>>

\* App.uploadBuildContext before it calls UploadBuildContext: the error it
\* returns for what getFiles returned ("" when it goes on to the upload).
uploadBuildContextErr(r) ==
    CASE r = "error" -> "error getting build context files"
      [] r = "nil"   -> "no build context files"
      [] OTHER       -> ""

\* Run stopping on every error of uploadBuildContext.
stopsRunAny(err) == err # ""

\* Run's test of the error: err != nil && !errors.Is(err, errNoBuildContextFiles)
stopsRun(err) == err # "" /\ err # "no build context files"

\* App.uploadBuildContext, up to the call of UploadBuildContext: getFiles
\* asks the service to parse the definition and returns an error, no list
\* (nil) or a list of files.
AppGetFiles ==
    \E r \in {"error", "nil", "files"} :
        /\ pc = "getfiles"
        /\ trace' = Append(trace, [Ev("getfiles", r # "error") EXCEPT !.ref = r])
        /\ IF stopsRun(uploadBuildContextErr(r))
           THEN Finish(RunErr("error uploading build context", FALSE))
           ELSE IF uploadBuildContextErr(r) # "" THEN Goto("initsigner")
           ELSE Goto("upload")
        /\ UNCHANGED <<fsys, defVars, keyVars, localLog, arVars, upVars, outVars, ctx, bi, app, files, buildContext, attempts>>

AppUploadBuildContext ==
    \E ok \in Net :
        /\ pc = "upload"
        /\ trace' = Append(trace, [Ev("upload", ok) EXCEPT
                                      !.digest = IF ok THEN "sha256.ctx" ELSE ""])
        /\ IF ok THEN buildContext' = "sha256.ctx" /\ Goto("initsigner")
           ELSE /\ Finish(RunErr("error uploading build context", ctx = "done"))
                /\ UNCHANGED buildContext
        /\ UNCHANGED <<fsys, defVars, keyVars, localLog, arVars, upVars, outVars, ctx, bi, app, files, attempts>>

\* build: initSigner, then the first iteration of the loop.
AppInitSigner ==
    \E ok \in (IF app.signing THEN BOOLEAN ELSE {TRUE}) :
        /\ pc = "initsigner"
        /\ IF ok
           THEN /\ idx' = 1
                /\ tmpFileName' = initialTmpFileName(1)
                /\ pc' = "submit"
                /\ UNCHANGED <<errs, ret, outcomes, stderr, verified>>
           ELSE Finish(RunErr("error initializing signer", FALSE))
        /\ UNCHANGED <<fsys, defVars, keyVars, localLog, arVars, upVars, outVars, ctx, bi, app, files, buildContext, attempts, trace>>

\* buildArtifact resubmitting after a failed Submit.
afterSubmitRetry(ok) == IF ok THEN "output" ELSE "submit"

\* What buildArtifact does after Submit returned.
afterSubmit(ok) == IF ok THEN "output" ELSE "fail"

AppSubmit ==
    \E ok \in Net :
        /\ pc = "submit"
        /\ trace' = Append(trace, submitRequest(idx, buildContext, tmpLibraryRefOf(idx), ok))
        /\ IF afterSubmit(ok) = "fail"
           THEN Fail("error submitting remote build", wrapped(causeOf(ok)))
           ELSE Goto(afterSubmit(ok))
        /\ bi' = IF ok THEN [NoStatus EXCEPT !.idx = idx] ELSE bi
        /\ UNCHANGED <<fsys, defVars, keyVars, localLog, arVars, upVars, outVars, ctx, app, files, buildContext, attempts>>

\* What GetOutput can return to buildArtifact: with a context already done
\* the dial fails; otherwise the stream ends well or badly, and the context
\* may become done while the output is streamed.
GetOutputReturns ==
    IF ctx = "done" THEN {"dial_ctx"} ELSE {"nil", "error", "ctx_nil", "ctx_error"}

AppGetOutput ==
    \E r \in GetOutputReturns :
        LET ok == r \in {"nil", "ctx_nil"} IN
        /\ pc = "output"
        /\ ctx' = IF r \in {"ctx_nil", "ctx_error"} THEN "done" ELSE ctx
        /\ trace' = Append(trace, Ev("output", ok))
        /\ IF afterOutput(ok) = "status" THEN Goto("status")
           ELSE Fail("error streaming remote build output", wrapped(causeOf(ok)))
        /\ UNCHANGED <<fsys, defVars, keyVars, localLog, arVars, upVars, outVars, bi, app, files, buildContext, attempts>>

\* GetStatus and the test of the image size.
AppGetStatus ==
    \E ok \in Net, complete \in BOOLEAN, size \in ImageSizes :
        /\ pc = "status"
        /\ trace' = Append(trace, Ev("status", ok))
        /\ IF ~ok
           THEN /\ Fail("error getting remote build status", wrapped(causeOf(ok)))
                /\ attempts' = [attempts EXCEPT ![idx].class = "failed"]
                /\ UNCHANGED bi
           ELSE LET info == [isComplete |-> complete, imageSize |-> size,
                             received |-> TRUE, idx |-> idx] IN
                /\ bi' = info
                /\ IF classify(info) # ""
                   THEN /\ Fail(classify(info), FALSE)
                        /\ attempts' = [attempts EXCEPT ![idx].class = "failed"]
                   ELSE /\ attempts' = [attempts EXCEPT ![idx].class = "succeeded"]
                        /\ IF buildContext # "" THEN Goto("delete") ELSE AfterArtifact
        /\ UNCHANGED <<fsys, defVars, keyVars, localLog, arVars, upVars, outVars, ctx, app, files, buildContext>>

\* buildArtifact's DeleteBuildContext; its error is dropped.  The event
\* records the call and, of its result, only the error of a context that
\* was done when the call was made.
AppDeleteBuildContext ==
    \E ok \in Net :
        /\ pc = "delete"
        /\ trace' = Append(trace, [Ev("delete", ctx # "done") EXCEPT !.digest = buildContext])
        /\ AfterArtifact
        /\ UNCHANGED <<fsys, defVars, keyVars, localLog, arVars, upVars, outVars, ctx, bi, app, files, buildContext, attempts>>

\* buildArch: os.CreateTemp for a signed build.
AppCreateTemp ==
    \E ok \in BOOLEAN :
        /\ pc = "mktemp"
        /\ IF ok
           THEN /\ tmpFileName' = <<"tmp", idx>>
                /\ files' = files \cup {<<"tmp", idx>>}
                /\ localLog' = Append(localLog, LocalEv("createtemp", <<"tmp", idx>>, "ok"))
                /\ pc' = "download"
                /\ UNCHANGED <<idx, errs, ret, outcomes, stderr, verified>>
           ELSE Fail("create temp", FALSE) /\ UNCHANGED <<files, localLog>>
        /\ UNCHANGED <<fsys, defVars, keyVars, arVars, upVars, outVars, ctx, bi, app, buildContext, attempts, trace>>

\* The SHA-256 of the bytes DownloadImage wrote: that of the image the
\* status names, or another.
ImageSums == {"img", "other"}

\* bi.ImageChecksum() of a build that made an image.
imageChecksum == <<"sha256", "img">>

\* retrieveArtifact's verification of the checksum: the line it prints.
\* Nothing is compared unless the checksum has two parts and names sha256.
verifyChecksum(values, sum) ==
    IF Len(values) = 2 /\ values[1] = "sha256"
    THEN IF values[2] # sum THEN "image checksum mismatch" ELSE "image checksum verified"
    ELSE ""

\* retrieveArtifact: open the file, download the image, compare checksums.
AppRetrieveArtifact ==
    \E r \in (IF tmpFileName = <<>> THEN {"open_error"}
              ELSE IF ctx = "done" THEN {"open_error", "download_error"}
              ELSE {"open_error", "download_error"} \cup ImageSums) :
        /\ pc = "download"
        /\ localLog' = Append(localLog, LocalEv("open", tmpFileName,
                                   IF r = "open_error" THEN "error" ELSE "ok"))
        /\ CASE r = "open_error" ->
                  /\ Fail("error retrieving build artifact", FALSE)
                  /\ UNCHANGED <<files, trace>>
             [] r = "download_error" ->
                  /\ files' = files \cup {tmpFileName}
                  /\ trace' = Append(trace, Ev("download", FALSE))
                  /\ Fail("error retrieving build artifact", wrapped(causeOf(FALSE)))
             [] OTHER ->
                  /\ files' = files \cup {tmpFileName}
                  /\ trace' = Append(trace, Ev("download", TRUE))
                  /\ Retrieved(verifyChecksum(imageChecksum, r))
        /\ UNCHANGED <<fsys, defVars, keyVars, arVars, upVars, outVars, ctx, bi, app, buildContext, attempts>>

AppSign ==
    \E ok \in BOOLEAN :
        /\ pc = "sign"
        /\ trace' = Append(trace, LocalStep("sign", ok))
        /\ IF ok THEN Goto("publish") ELSE Fail("signing error", wrapped("other"))
        /\ UNCHANGED <<fsys, defVars, keyVars, localLog, arVars, upVars, outVars, ctx, bi, app, files, buildContext, attempts>>

\* buildArch: uploadImage to the library, or rename to the destination.
AppPublish ==
    /\ pc = "publish"
    /\ \E ok \in (IF directLibraryUpload(dstFileNameOf(idx)) THEN Net ELSE BOOLEAN) :
        /\ trace' = Append(trace,
                          IF directLibraryUpload(dstFileNameOf(idx))
                          THEN [Ev("publish", ok) EXCEPT !.ref = app.LibraryRef]
                          ELSE [LocalStep("publish", ok) EXCEPT !.ref = "rename"])
        /\ localLog' =
              IF directLibraryUpload(dstFileNameOf(idx))
              THEN IF ok THEN Append(localLog, LocalEv("remove", tmpFileName, "ok"))
                   ELSE localLog
              ELSE Append(localLog, LocalEv("rename", dstFileNameOf(idx),
                                            IF ok THEN "ok" ELSE "error"))
        /\ IF ok
           THEN /\ files' = IF directLibraryUpload(dstFileNameOf(idx))
                            THEN files \ {tmpFileName}
                            ELSE (files \ {tmpFileName}) \cup {dstFileNameOf(idx)}
                /\ Succeed
           ELSE /\ IF directLibraryUpload(dstFileNameOf(idx))
                   THEN Fail("error uploading image", wrapped(causeOf(ok)))
                   ELSE Fail("file rename error", wrapped("other"))
                /\ UNCHANGED files
    /\ UNCHANGED <<fsys, defVars, keyVars, arVars, upVars, outVars, ctx, bi, app, buildContext, attempts>>

\* build: os.Lstat of the destination file after buildArch returned; its
\* error ends the attempt and Run with it.
AppLstat ==
    /\ pc = "lstat"
    /\ \E ok \in (IF dstFileNameOf(idx) \in files THEN BOOLEAN ELSE {FALSE}) :
          /\ localLog' = Append(localLog, LocalEv("lstat", dstFileNameOf(idx),
                                                  IF ok THEN "ok" ELSE "error"))
          /\ IF ok THEN Advance(errs, NoErr)
             ELSE LET e == [msg |-> "error opening file for reading", idx |-> idx,
                            cancel |-> FALSE] IN
                  /\ pc' = "done"
                  /\ ret' = e
                  /\ outcomes' = Append(outcomes, e)
                  /\ verified' = ""
                  /\ UNCHANGED <<idx, tmpFileName, errs, stderr>>
    /\ UNCHANGED <<fsys, defVars, keyVars, arVars, upVars, outVars, ctx, bi, app, files, buildContext, attempts, trace>>

\* The caller cancels the context, or its deadline passes, while Run runs.
AppCancel ==
    /\ pc # "done"
    /\ ctx = "live"
    /\ ctx' = "done"
    /\ UNCHANGED <<fsys, defVars, keyVars, arVars, upVars, outVars, appVars>>

AppNext ==
    \/ AppPreflight \/ AppGetBuildDef \/ AppGetFiles \/ AppUploadBuildContext
    \/ AppInitSigner \/ AppSubmit \/ AppGetOutput \/ AppGetStatus
    \/ AppDeleteBuildContext \/ AppCreateTemp \/ AppRetrieveArtifact
    \/ AppSign \/ AppPublish \/ AppLstat \/ AppCancel

AppSpec == AppInit /\ [][AppNext]_vars

(***************************************************************************)
(* Client.GetOutput: the caller's goroutine (gout) and the goroutine that  *)
(* reads the websocket (reader), which hand over one result on errChan.    *)
(***************************************************************************)
MaxFrames == 2

\* What the service sends on the stream: data frames, then the way it ends.
\* "silent" is a service that sends nothing more and leaves the stream open.
FrameTypes == {"text", "binary"}

StreamEnds == {"normal", "abnormal", "reset", "silent"}

Scripts == UNION { [1..n -> FrameTypes] : n \in 0..MaxFrames }

LogEv(ev, arg) == [ev |-> ev, arg |-> arg, parent |-> "", timeout |-> 0]

\* ws.NextReader can return: the connection was closed on this side, a frame
\* is there, or the service has ended the stream.
readable(s) == ~s.open \/ s.frames # <<>> \/ s.end # "silent"

\* ws.NextReader: the message type or the error, and the stream left.
NextReader(s) ==
    IF ~s.open THEN [mt |-> "", err |-> "closed", ws |-> s]
    ELSE IF s.frames # <<>>
         THEN [mt |-> Head(s.frames), err |-> "", ws |-> [s EXCEPT !.frames = Tail(s.frames)]]
    ELSE [mt |-> "",
          err |-> CASE s.end = "normal"   -> "close_1000"
                    [] s.end = "abnormal" -> "close_1006"
                    [] OTHER              -> "io",
          ws |-> s]

\* websocket.IsCloseError(err, websocket.CloseNormalClosure)
IsCloseNormal(err) == err = "close_1000"

\* The goroutine's result after NextReader returned the error err.
readResult(err) == IF IsCloseNormal(err) THEN "nil" ELSE "failed to read output"

\* What io.Copy(w, r) can do: write the whole frame, write less than the
\* frame, get an error from the sink, or get an error reading the frame.
CopyOutcomes == {"full", "short", "werror", "rerror"}

\* A goroutine that takes a short write of the sink for a complete one.
copyResultIgnoreShort(o) == IF o \in {"full", "short"} THEN "nil" ELSE "failed to copy output"

\* The goroutine's result after io.Copy: io.Copy turns a short write into
\* io.ErrShortWrite.
copyResult(o) == IF o = "full" THEN "nil" ELSE "failed to copy output"

\* A cancel request made under the caller's context.
cancelContextParent == [parent |-> "ctx", timeout |-> 0]

\* The context of the cancel request: context.WithTimeout(context.Background(), 5s)
cancelContext == [parent |-> "background", timeout |-> 5]

\* A ws.Close that leaves the connection open.
closeStreamNoop(s) == s

\* ws.Close()
closeStream(s) == [s EXCEPT !.open = FALSE]

\* GetOutput returning right after ws.Close.
afterWsCloseReturn == "returned"

\* After ws.Close GetOutput receives from errChan.
afterWsClose == "wait"


OutInit ==
    /\ fsys \in {[p \in Universe |-> "none"]}
    /\ ArQuiet
    /\ UpQuiet
    /\ AppQuiet
    /\ DefQuiet
    /\ KeyQuiet
    /\ ctx \in {"live", "done"}
    /\ gout = [pc |-> "dial", ret |-> ""]
    /\ reader = [pc |-> "idle", err |-> ""]
    /\ ws \in { [open |-> FALSE, frames |-> f, end |-> e] : f \in Scripts, e \in StreamEnds }
    /\ olog = <<>>

\* GetOutput returns v: the deferred ws.Close runs.
Return(v, log) ==
    /\ gout' = [pc |-> "returned", ret |-> v]
    /\ ws' = closeStream(ws)
    /\ olog' = Append(log, LogEv("returned", v))

\* dialer.DialContext, and the go statement that starts the reader.
OutDial ==
    \E ok \in Net :
        /\ gout.pc = "dial"
        /\ IF ok
           THEN /\ ws' = [ws EXCEPT !.open = TRUE]
                /\ gout' = [gout EXCEPT !.pc = "select"]
                /\ reader' = [reader EXCEPT !.pc = "read"]
                /\ UNCHANGED olog
           ELSE Return("failed to dial", olog) /\ UNCHANGED reader
        /\ UNCHANGED <<fsys, defVars, keyVars, arVars, upVars, appVars, ctx>>

\* The caller cancels the context, or its deadline passes.
OutCtxDone ==
    /\ gout.pc # "returned"
    /\ ctx = "live"
    /\ ctx' = "done"
    /\ UNCHANGED <<fsys, defVars, keyVars, arVars, upVars, appVars, outVars>>

\* The reader: one turn of its loop up to the call of io.Copy.
OutNextReader ==
    /\ reader.pc = "read"
    /\ readable(ws)
    /\ LET r == NextReader(ws) IN
        /\ ws' = r.ws
        /\ olog' = Append(olog, LogEv("read", IF r.err # "" THEN r.err ELSE r.mt))
        /\ reader' = IF r.err # "" THEN [pc |-> "send", err |-> readResult(r.err)]
                     ELSE IF r.mt = "text" THEN [reader EXCEPT !.pc = "copy"]
                     ELSE reader
    /\ UNCHANGED <<fsys, defVars, keyVars, arVars, upVars, appVars, ctx, gout>>

\* The reader: io.Copy of a text frame to the sink.
OutCopy ==
    \E o \in CopyOutcomes :
        /\ reader.pc = "copy"
        /\ olog' = IF o = "rerror" THEN olog ELSE Append(olog, LogEv("write", o))
        /\ reader' = IF copyResult(o) = "nil" THEN [reader EXCEPT !.pc = "read"]
                     ELSE [pc |-> "send", err |-> copyResult(o)]
        /\ UNCHANGED <<fsys, defVars, keyVars, arVars, upVars, appVars, ctx, gout, ws>>

\* select takes the reader's result from errChan and GetOutput returns it.
OutRecvSelect ==
    /\ gout.pc = "select"
    /\ reader.pc = "send"
    /\ reader' = [reader EXCEPT !.pc = "closing"]
    /\ Return(reader.err, olog)
    /\ UNCHANGED <<fsys, defVars, keyVars, arVars, upVars, appVars, ctx>>

\* select takes ctx.Done(): the cancel request is sent under a new context.
OutSelectDone ==
    /\ gout.pc = "select"
    /\ ctx = "done"
    /\ gout' = [gout EXCEPT !.pc = "cancel"]
    /\ olog' = Append(olog, [ev |-> "cancel", arg |-> "", parent |-> cancelContext.parent,
                             timeout |-> cancelContext.timeout])
    /\ UNCHANGED <<fsys, defVars, keyVars, arVars, upVars, appVars, ctx, reader, ws>>

\* c.Cancel returns: the service answered, or failed, or the time ran out.
\* Its error is dropped.
OutCancelReturn ==
    \E o \in {"ok", "error", "timeout"} :
        /\ gout.pc = "cancel"
        /\ gout' = [gout EXCEPT !.pc = "close"]
        /\ olog' = Append(olog, LogEv("cancel_done", o))
        /\ UNCHANGED <<fsys, defVars, keyVars, arVars, upVars, appVars, ctx, reader, ws>>

\* ws.Close() of the cancellation branch.
OutWsClose ==
    /\ gout.pc = "close"
    /\ IF afterWsClose = "wait"
       THEN /\ ws' = closeStream(ws)
            /\ olog' = Append(olog, LogEv("ws_close", ""))
            /\ gout' = [gout EXCEPT !.pc = "wait"]
       ELSE Return("nil", Append(olog, LogEv("ws_close", "")))
    /\ UNCHANGED <<fsys, defVars, keyVars, arVars, upVars, appVars, ctx, reader>>

\* <-errChan of the cancellation branch, then return nil.
OutRecvWait ==
    /\ gout.pc = "wait"
    /\ reader.pc = "send"
    /\ reader' = [reader EXCEPT !.pc = "closing"]
    /\ Return("nil", olog)
    /\ UNCHANGED <<fsys, defVars, keyVars, arVars, upVars, appVars, ctx>>

\* The reader's deferred close(errChan); the goroutine ends.
OutReaderExit ==
    /\ reader.pc = "closing"
    /\ reader' = [reader EXCEPT !.pc = "exited"]
    /\ UNCHANGED <<fsys, defVars, keyVars, arVars, upVars, appVars, ctx, gout, ws, olog>>

OutMain ==
    \/ OutDial \/ OutRecvSelect \/ OutSelectDone \/ OutCancelReturn \/ OutWsClose
    \/ OutRecvWait

OutReader == OutNextReader \/ OutCopy \/ OutReaderExit

OutNext == OutMain \/ OutReader \/ OutCtxDone

OutSpec == OutInit /\ [][OutNext]_vars

\* Both goroutines are scheduled while they can run, and the cancel request
\* ends within its timeout.
OutLiveSpec == OutSpec /\ WF_vars(OutMain) /\ WF_vars(OutReader)

(***************************************************************************)
(* App.getFiles: the list of files of the build context, made from the     *)
(* %files sections of the parsed definition.  The arguments of a section   *)
(* are the sequence of their words, "#" being the start of a comment; a    *)
(* source is [abs, parts], the parts being the names between the slashes.  *)
(***************************************************************************)
MaxSections == 2

MaxEntries == 2

\* The working directory filepath.Abs joins to a relative path.
Cwd == <<"w", "d">>

\* The arguments of a %files section: none, stage one, stage one with a
\* comment, and two words that do not name a stage.
SectionArgs ==
    { <<>>, <<"stage", "one">>, <<"stage", "one", "#", "note">>, <<"first", "second">> }

\* The sources of an entry: ./file.txt and /a/../b
Sources ==
    { [abs |-> FALSE, parts |-> <<".", "file.txt">>],
      [abs |-> TRUE, parts |-> <<"a", "..", "b">>] }

Sections ==
    { [args |-> a, files |-> f] :
        a \in SectionArgs, f \in UNION { [1..n -> Sources] : n \in 1..MaxEntries } }

Definitions == UNION { [1..n -> Sections] : n \in 0..MaxSections }

\* strings.SplitN(args, "#", 2)[0], then strings.Fields: the words before
\* the first "#".
RECURSIVE cleanArgs(_)
cleanArgs(args) ==
    IF args = <<>> \/ Head(args) = "#" THEN <<>>
    ELSE <<Head(args)>> \o cleanArgs(Tail(args))

\* files.Stage
Stage(args) ==
    IF Len(cleanArgs(args)) = 2 /\ cleanArgs(args)[1] # "stage"
    THEN cleanArgs(args)[2]
    ELSE ""

\* filepath.Clean on the parts of an absolute path: "." is dropped and ".."
\* takes away the part before it.
RECURSIVE cleanParts(_, _)
cleanParts(done, parts) ==
    IF parts = <<>> THEN done
    ELSE IF Head(parts) = "." THEN cleanParts(done, Tail(parts))
    ELSE IF Head(parts) = ".."
         THEN cleanParts(IF done = <<>> THEN done ELSE SubSeq(done, 1, Len(done) - 1),
                         Tail(parts))
    ELSE cleanParts(Append(done, Head(parts)), Tail(parts))

\* FileTransport.SourcePath: filepath.Abs, then the path without its leading
\* slash; the root directory is "." (the empty sequence of parts).
SourcePath(src) ==
    cleanParts(<<>>, IF src.abs THEN src.parts ELSE Cwd \o src.parts)

RECURSIVE sourcePaths(_)
sourcePaths(fts) ==
    IF fts = <<>> THEN <<>> ELSE <<SourcePath(Head(fts))>> \o sourcePaths(Tail(fts))

\* The loop of getFiles over the sections.
RECURSIVE collectFiles(_)
collectFiles(d) ==
    IF d = <<>> THEN <<>>
    ELSE (IF Stage(Head(d).args) # "" THEN <<>> ELSE sourcePaths(Head(d).files))
         \o collectFiles(Tail(d))

\* getFiles: the error of the parse, or the list; the list is nil when
\* nothing was appended to it.
getFiles(d, parsed) ==
    IF ~parsed
    THEN [called |-> TRUE, files |-> <<>>, isNil |-> TRUE, err |-> "def file parse error"]
    ELSE [called |-> TRUE, files |-> collectFiles(d), isNil |-> collectFiles(d) = <<>>,
          err |-> ""]

FilesInit ==
    /\ fsys \in {[p \in Universe |-> "none"]}
    /\ ArQuiet
    /\ UpQuiet
    /\ AppQuiet
    /\ OutQuiet
    /\ ctx = "live"
    /\ definition \in Definitions
    /\ fileList = NotCalled
    /\ KeyQuiet

\* One call of getFiles: the service parses the definition or fails.
FilesGetFiles ==
    \E parsed \in BOOLEAN :
        /\ ~fileList.called
        /\ fileList' = getFiles(definition, parsed)
        /\ UNCHANGED <<fsys, definition, keyVars, arVars, upVars, appVars, outVars, ctx>>

FilesNext == FilesGetFiles

FilesSpec == FilesInit /\ [][FilesNext]_vars

(***************************************************************************)
(* The choice of the PGP signing key (getPGPSignerOpts).  An entity is     *)
(* [fp, priv, enc]: the fingerprint of its primary key as %0x prints it,   *)
(* whether it has a private key, and whether that key is encrypted.        *)
(***************************************************************************)
MaxKeys == 2

Fingerprints == {"aa", "bb"}

Entities ==
    { e \in [fp : Fingerprints, priv : BOOLEAN, enc : BOOLEAN] : e.enc => e.priv }

Keyrings == UNION { [1..n -> Entities] : n \in 0..MaxKeys }

\* The --fingerprint values: one in upper case, one in lower case, one that
\* no key has.
FingerprintArgs == {"AA", "bb", "cc"}

\* The --keyidx values; -1 is the flag's default and selects no index.
KeyIdxs == {-2, 0, 1, MaxKeys}

\* The lines typed at the "Key #: " prompt.
Inputs == {"0", "1", "9", "-1", "x", ""}

Selectors ==
    { [kind |-> "fingerprint", fp |-> f, n |-> -1, tty |-> FALSE, input |-> ""] :
        f \in FingerprintArgs }
    \cup { [kind |-> "index", fp |-> "", n |-> n, tty |-> FALSE, input |-> ""] :
             n \in KeyIdxs }
    \cup { [kind |-> "interactive", fp |-> "", n |-> -1, tty |-> TRUE, input |-> i] :
             i \in Inputs }
    \cup { [kind |-> "interactive", fp |-> "", n |-> -1, tty |-> FALSE, input |-> ""] }

\* strings.ToLower
ToLower(s) == CASE s = "AA" -> "aa" [] s = "Bb" -> "bb" [] OTHER -> s

\* strconv.Atoi: the number, or an error.
Atoi(s) ==
    CASE s = "0"  -> [n |-> 0, err |-> ""]
      [] s = "1"  -> [n |-> 1, err |-> ""]
      [] s = "9"  -> [n |-> 9, err |-> ""]
      [] s = "-1" -> [n |-> -1, err |-> ""]
      [] OTHER    -> [n |-> 0, err |-> "invalid syntax"]

\* stripPublicKeys: the entities that have a private key.
stripPublicKeys(e) == SelectSeq(e, LAMBDA x : x.priv)

\* The selection function signKeyringFingerprint sets.
signKeyringFingerprint(keyringFingerprint, el) ==
    LET hits == { i \in 1..Len(el) : el[i].fp = ToLower(keyringFingerprint) } IN
    IF hits = {} THEN Selection(Nil, "key not found", FALSE)
    ELSE Selection(el[CHOOSE i \in hits : \A j \in hits : i <= j], "", FALSE)

\* The selection function signKeyringKeyIdx sets: el[n] panics for n < 0.
signKeyringKeyIdx(n, el) ==
    IF n >= Len(el) THEN Selection(Nil, "key not found", FALSE)
    ELSE IF n < 0 THEN Selection(Nil, "", TRUE)
    ELSE Selection(el[n + 1], "", FALSE)

\* keyringEntitySelectorFunc: the prompt when the standard output is a
\* terminal, and (nil, nil) when it is not.
keyringEntitySelectorFunc(tty, input, el) ==
    IF ~tty THEN Selection(Nil, "", FALSE)
    ELSE IF Atoi(input).err # "" THEN Selection(Nil, Atoi(input).err, FALSE)
    ELSE IF Atoi(input).n < 0 \/ Atoi(input).n >= Len(el)
         THEN Selection(Nil, "index out of range", FALSE)
    ELSE Selection(el[Atoi(input).n + 1], "", FALSE)

\* s.entitySelectorFunc(e)
entitySelectorFunc(s, el) ==
    CASE s.kind = "fingerprint" -> signKeyringFingerprint(s.fp, el)
      [] s.kind = "index"       -> signKeyringKeyIdx(s.n, el)
      [] OTHER                  -> keyringEntitySelectorFunc(s.tty, s.input, el)

\* What getPGPSignerOpts did before it called the selection function.
Returned(err) ==
    [called |-> TRUE, reached |-> FALSE, sel |-> Selection(Nil, "", FALSE),
     entity |-> Nil, err |-> err, panic |-> FALSE]

\* getPGPSignerOpts from the call of the selection function on: entity is
\* dereferenced (entity.Identities) as soon as the function returned no
\* error, and an encrypted key is decrypted with the passphrase.
afterSelection(sel, pass) ==
    LET done(e, err, panic) ==
            [called |-> TRUE, reached |-> TRUE, sel |-> sel,
             entity |-> e, err |-> err, panic |-> panic]
    IN  IF sel.panic THEN done(Nil, "", TRUE)
        ELSE IF sel.err # "" THEN done(Nil, sel.err, FALSE)
        ELSE IF sel.entity = Nil THEN done(Nil, "", TRUE)
        ELSE IF ~sel.entity.enc THEN done(sel.entity, "", FALSE)
        ELSE IF pass = "error" THEN done(Nil, "passphrase", FALSE)
        ELSE IF pass = "bad" THEN done(Nil, "key decrypt", FALSE)
        ELSE done(sel.entity, "", FALSE)

\* getPGPSignerOpts
getPGPSignerOpts(kr, s, opened, pass) ==
    IF ~opened THEN Returned("open")
    ELSE IF stripPublicKeys(kr) = <<>> THEN Returned("private key not found")
    ELSE afterSelection(entitySelectorFunc(s, stripPublicKeys(kr)), pass)

KeyInit ==
    /\ fsys \in {[p \in Universe |-> "none"]}
    /\ ArQuiet
    /\ UpQuiet
    /\ AppQuiet
    /\ OutQuiet
    /\ DefQuiet
    /\ ctx = "live"
    /\ keyring \in Keyrings
    /\ selector \in Selectors
    /\ selected = NotSelected

\* One call of getPGPSignerOpts: the keyring file opens or does not, and
\* the passphrase function gives the right passphrase, a wrong one or an
\* error.
KeyGetPGPSignerOpts ==
    \E opened \in BOOLEAN, pass \in {"good", "bad", "error"} :
        /\ ~selected.called
        /\ selected' = getPGPSignerOpts(keyring, selector, opened, pass)
        /\ UNCHANGED <<fsys, defVars, keyring, selector, arVars, upVars, appVars, outVars, ctx>>

KeyNext == KeyGetPGPSignerOpts

KeySpec == KeyInit /\ [][KeyNext]_vars

(***************************************************************************)
(* Properties of the archiver (ArSpec)                                     *)
(***************************************************************************)
Ancestors(name) == { SubSeq(name, 1, k) : k \in 1..(Len(name) - 1) }

\* C1: after any sequence of WriteFiles calls with overlapping path specs,
\* no path is written to the archive as two entries.
C1_NoDuplicateEntry ==
    \A i, j \in 1..Len(w.entries) :
        i # j => w.entries[i].name # w.entries[j].name

\* Overlapping calls happened: a later call met paths already archived.
C1_Witness == skipped /\ ncalls >= 2 /\ Len(w.entries) >= 3

\* C2: every entry below a directory other than the root comes after a
\* directory entry for each of its ancestors.
C2_AncestorsPrecede ==
    \A i \in 1..Len(w.entries) :
        \A anc \in Ancestors(w.entries[i].name) :
            \E j \in 1..(i - 1) :
                w.entries[j].name = anc /\ w.entries[j].type = "dir"

\* One call that names a/b/c (and not the whole of a) wrote a/ and a/b/ first.
C2_Witness ==
    /\ ncalls = 1 /\ werr = ""
    /\ fsys[<<"a", "d">>] # "none"
    /\ Len(w.entries) = 3
    /\ w.entries[1].name = <<"a">>
    /\ w.entries[2].name = <<"a", "b">>
    /\ w.entries[3].name = <<"a", "b", "c">>

(***************************************************************************)
(* Properties of the context uploader (UpSpec)                             *)
(***************************************************************************)
\* C3: when the service answers the upload-location request with a success
\* status and no location, no PUT is issued and the computed digest is
\* returned with no error.
C3_AlreadyPresentNoPut ==
    \A i \in 1..Len(upRet) :
        upRet[i].reply = "no_location" =>
            /\ upRet[i].puts = 0
            /\ upRet[i].err = ""
            /\ upRet[i].digest = upRet[i].declared
            /\ upRet[i].digest = sha256Digest(gzipBytes(upRet[i].tar))

C3_Witness ==
    \E i \in 1..Len(upRet) : upRet[i].reply = "no_location" /\ Len(upRet[i].tar) >= 3

C5_DigestOverUncompressed ==
    /\ up.pc # "idle" => up.digest = sha256Digest(up.tar)
    /\ \A i \in 1..Len(upRet) :
          upRet[i].err = "" => upRet[i].digest = sha256Digest(upRet[i].tar)

\* C5 amended: the digest sent to the service and returned to the caller is
\* the SHA-256 of the gzip-compressed archive bytes, those of the spool file.
C5_DigestOverCompressed ==
    /\ up.pc # "idle" =>
          /\ up.digest = sha256Digest(rw.data)
          /\ rw.data = gzipBytes(up.tar)
          /\ \E i \in 1..Len(requests) :
                requests[i].method = "POST" /\ requests[i].digest = up.digest
    /\ \A i \in 1..Len(upRet) :
          upRet[i].err = "" =>
              /\ upRet[i].digest = upRet[i].declared
              /\ upRet[i].digest = sha256Digest(gzipBytes(upRet[i].tar))

C5_Witness ==
    \E i \in 1..Len(upRet) :
        upRet[i].err = "" /\ upRet[i].puts = 1 /\ Len(upRet[i].tar) >= 3

\* C6: two uploads whose archives are byte-identical return the same digest;
\* the path specs . and * over one file system return the same digest.
C6_SameContentSameDigest ==
    \A i, j \in 1..Len(upRet) :
        (upRet[i].err = "" /\ upRet[j].err = "") =>
            /\ upRet[i].tar = upRet[j].tar => upRet[i].digest = upRet[j].digest
            /\ (upRet[i].paths = <<Root>> /\ upRet[j].paths = <<<<"*">>>>)
                  => upRet[i].digest = upRet[j].digest

C6_Witness ==
    \E i, j \in 1..Len(upRet) :
        /\ upRet[i].paths = <<Root>> /\ upRet[j].paths = <<<<"*">>>>
        /\ upRet[i].err = "" /\ upRet[j].err = ""
        /\ Len(upRet[i].tar) >= 5

(***************************************************************************)
(* Properties of the orchestrator (AppSpec)                                *)
(***************************************************************************)
StepRank ==
    ("submit" :> 1) @@ ("output" :> 2) @@ ("status" :> 3) @@ ("download" :> 4)
    @@ ("sign" :> 5) @@ ("publish" :> 6)

\* The steps of attempt i, in the order they were made.
AttemptSteps(i) ==
    LET isStep(e) == e.idx = i /\ e.op \in DOMAIN StepRank
    IN  SelectSeq(trace, isStep)

TraceIdx(op) == { k \in 1..Len(trace) : trace[k].op = op }

\* C7: an attempt is classified as succeeded exactly when the status it
\* received reports the build complete and an image size above zero.
C7_SucceededIffCompleteAndSized ==
    bi.received =>
        (attempts[bi.idx].class = "succeeded" <=> (bi.isComplete /\ bi.imageSize > 0))

\* C8: the steps of one attempt are made in the order submit, output, status,
\* download, sign, publish; each follows the success of the one before it.
C8_StepsInOrder ==
    \A i \in 1..Len(app.archsToBuild) :
        LET es == AttemptSteps(i) IN
        /\ es # <<>> => es[1].op = "submit"
        /\ \A k \in 2..Len(es) :
              /\ es[k - 1].ok
              /\ StepRank[es[k].op] = StepRank[es[k - 1].op] + 1
        /\ (\E k \in 1..Len(es) : es[k].op = "download")
              => attempts[i].class = "succeeded"

C8_Witness ==
    \E i \in 1..Len(app.archsToBuild) :
        /\ Len(AttemptSteps(i)) = 6
        /\ AttemptSteps(i)[6].ok

\* C9: once the loop over the architectures has begun, every requested
\* architecture is attempted, in the order given, whatever fails.
C9_EveryArchAttempted ==
    /\ (pc = "done" /\ idx >= 1) =>
          \A i \in 1..Len(app.archsToBuild) :
              \E k \in TraceIdx("submit") : trace[k].idx = i
    /\ \A k1, k2 \in TraceIdx("submit") : k1 < k2 => trace[k1].idx < trace[k2].idx

\* C10: the build context is uploaded at most once, before the first submit,
\* and every submit carries its digest.
C10_OneUploadSharedDigest ==
    /\ Cardinality(TraceIdx("upload")) <= 1
    /\ \A u \in TraceIdx("upload") : \A k \in TraceIdx("submit") : u < k
    /\ \A k \in TraceIdx("submit") :
          /\ \A u \in TraceIdx("upload") : trace[u].ok /\ trace[k].digest = trace[u].digest
          /\ TraceIdx("upload") = {} => trace[k].digest = ""

C10_Witness ==
    /\ \E u \in TraceIdx("upload") : trace[u].digest # ""
    /\ \E k1, k2 \in TraceIdx("submit") : trace[k1].idx = 1 /\ trace[k2].idx = 2

\* The attempts that ended with an error, by index in archsToBuild.
FailedAttempts == { i \in 1..Len(outcomes) : outcomes[i] # NoErr }

\* Every requested architecture's attempt has ended and Run has returned.
AllAttempted == pc = "done" /\ Len(outcomes) = Len(app.archsToBuild)

\* C11: an uploaded build context is deleted exactly once per invocation,
\* after every architecture has been attempted: no delete request comes
\* before a submit, and one is issued even when every attempt failed.
C11_DeleteOnceAfterAll ==
    /\ Cardinality(TraceIdx("delete")) <= 1
    /\ \A d \in TraceIdx("delete") : \A k \in TraceIdx("submit") : k < d
    /\ (AllAttempted /\ buildContext # "") => Cardinality(TraceIdx("delete")) = 1

\* C12: when the context is done before Run has returned, the error Run
\* returns is the cancellation error, whatever the number of architectures.
C12_CancelledReturnsCancellation ==
    (pc = "done" /\ ctx = "done") => ret.cancel

\* C18: for each architecture's attempt at most one submit request is sent.
C18_AtMostOneSubmit ==
    \A k1, k2 \in TraceIdx("submit") : trace[k1].idx = trace[k2].idx => k1 = k2

\* A submit failed, and the run went on to its end without sending it again.
C18_Witness ==
    /\ AllAttempted
    /\ Len(app.archsToBuild) = 2
    /\ \E k \in TraceIdx("submit") : trace[k].idx = 1 /\ ~trace[k].ok

\* C19: if exactly one attempt failed, with error E, and all the others
\* succeeded, Run returns E itself.
C19_SingleFailureReturned ==
    (AllAttempted /\ Cardinality(FailedAttempts) = 1) =>
        \A i \in FailedAttempts : ret = outcomes[i]

\* amd64 succeeded and arm64 failed.
C19_Witness ==
    /\ AllAttempted
    /\ app.archsToBuild = <<"amd64", "arm64">>
    /\ FailedAttempts = {2}
    /\ ret = outcomes[2]
    /\ ret.msg = "failed to build image"

\* C20: if more than one attempt failed, one line per failed architecture
\* is printed to the error stream and Run returns the aggregate error, which
\* is none of the attempts' errors.
C20_AggregateOnManyFailures ==
    (AllAttempted /\ Cardinality(FailedAttempts) > 1) =>
        /\ ret.msg = "failed to build images"
        /\ \A i \in FailedAttempts : ret # outcomes[i]
        /\ \A i \in FailedAttempts : [arch |-> archOf(i), err |-> outcomes[i]] \in stderr
        /\ Cardinality(stderr) = Cardinality({ archOf(i) : i \in FailedAttempts })

(***************************************************************************)
(* Properties of GetOutput (OutSpec, OutLiveSpec)                          *)
(***************************************************************************)
LogIdx(ev) == { k \in 1..Len(olog) : olog[k].ev = ev }

\* The reader was told by the service that the stream ended normally.
NormalClosureRead == \E k \in LogIdx("read") : olog[k].arg = "close_1000"

\* The number of text frames the reader has taken from the stream.
TextFramesRead == Cardinality({ k \in LogIdx("read") : olog[k].arg = "text" })

\* C13: GetOutput returns nil only if the stream ended with a normal
\* closure; when its context is done before that, it returns an error.
C13_NilOnlyOnNormalClosure ==
    (gout.pc = "returned" /\ gout.ret = "nil") => NormalClosureRead

\* C14: on cancellation during streaming one cancel request is sent, under a
\* context that is new and has a timeout; the stream is closed after that
\* request has ended; and whatever its outcome GetOutput returns the same.
C14_CancelThenClose ==
    /\ Cardinality(LogIdx("cancel")) <= 1
    /\ \A c \in LogIdx("cancel") :
          /\ ctx = "done"
          /\ olog[c].parent = "background"
          /\ olog[c].timeout > 0
    /\ \A k \in LogIdx("ws_close") :
          \E c \in LogIdx("cancel"), d \in LogIdx("cancel_done") : c < d /\ d < k
    /\ gout.pc \in {"cancel", "close", "wait"} => Cardinality(LogIdx("cancel")) = 1
    /\ (gout.pc = "returned" /\ LogIdx("cancel") # {}) =>
          /\ gout.ret = "nil"
          /\ LogIdx("ws_close") # {}

\* The cancel request timed out, the stream was closed, GetOutput returned.
C14_Witness ==
    /\ gout.pc = "returned"
    /\ \E d \in LogIdx("cancel_done") : olog[d].arg = "timeout"
    /\ \E k \in LogIdx("read") : olog[k].arg = "closed"

\* C15: when GetOutput has returned, the reader has left its loop for good
\* (it never started, or it has handed over its result), and nothing is
\* written to the sink or read from the stream afterwards.
C15_ReaderDoneAtReturn ==
    gout.pc = "returned" =>
        /\ reader.pc \in {"idle", "closing", "exited"}
        /\ \A r \in LogIdx("returned") :
              \A k \in LogIdx("write") \cup LogIdx("read") : k < r

\* A return on the cancellation path, after output was written, with the
\* reader ended.
C15_Witness ==
    /\ gout.pc = "returned"
    /\ reader.pc = "exited"
    /\ LogIdx("cancel") # {}
    /\ LogIdx("write") # {}

\* C16: once the context is done, GetOutput returns.
C16_CancelledReturns == (ctx = "done") ~> (gout.pc = "returned")

\* The service never ended the stream: GetOutput returned all the same.
C16_Witness ==
    /\ gout.pc = "returned"
    /\ ws.end = "silent"
    /\ LogIdx("cancel") # {}
    /\ reader.pc = "exited"

\* C17: with a context that is never done, GetOutput returns nil exactly
\* when the stream ended with a normal closure and every text frame was
\* written to the sink in full.
C17_SuccessIffNormalAndWritten ==
    (gout.pc = "returned" /\ ctx = "live") =>
        (gout.ret = "nil" <=>
            /\ NormalClosureRead
            /\ Cardinality(LogIdx("write")) = TextFramesRead
            /\ \A k \in LogIdx("write") : olog[k].arg = "full")

\* Two text frames written in full, then a normal closure.
C17_Witness ==
    /\ gout.pc = "returned" /\ ctx = "live" /\ gout.ret = "nil"
    /\ Cardinality(LogIdx("write")) = 2

(***************************************************************************)
(* Properties of the local files of the orchestrator (AppSpec)             *)
(***************************************************************************)
LocalIdx(op) == { k \in 1..Len(localLog) : localLog[k].op = op }

\* A local destination is used and force-overwrite is not set.
CheckedDestination == ~app.force /\ app.dstFileName # <<>>

\* C21: with a local destination and no force-overwrite, the destination
\* name of every requested architecture is checked before a build context is
\* uploaded or a build is submitted, and if one of the names exists the run
\* fails without an upload and without a submit.
C21_PreflightBeforeRemoteWork ==
    CheckedDestination =>
        /\ (TraceIdx("upload") \cup TraceIdx("submit") # {}) =>
              \A i \in 1..Len(app.archsToBuild) :
                  \E k \in LocalIdx("stat") :
                      /\ localLog[k].name = dstFileNameOf(i)
                      /\ localLog[k].res = "absent"
        /\ (\E k \in LocalIdx("stat") : localLog[k].res = "exists") =>
              /\ pc = "done"
              /\ ret.msg = "destination file already exists"
              /\ trace = <<>>
        \* before the loop of build the local files are those Run started with
        /\ (/\ pc # "preflight" /\ idx = 0
            /\ \E i \in 1..Len(app.archsToBuild) : dstFileNameOf(i) \in files) =>
              /\ pc = "done"
              /\ ret.msg = "destination file already exists"
              /\ trace = <<>>

\* The second architecture's file exists: the run ended before any request.
C21_Witness ==
    /\ CheckedDestination
    /\ Len(app.archsToBuild) = 2
    /\ pc = "done"
    /\ ret.msg = "destination file already exists"
    /\ Cardinality(LocalIdx("stat")) = 2
    /\ localLog[1].res = "absent"
    /\ localLog[2].res = "exists"
    /\ trace = <<>>

\* The destination file of attempt i as the claim names it.
SuffixedName(i) ==
    IF Len(app.archsToBuild) > 1
    THEN app.dstFileName \o <<"-", app.archsToBuild[i]>>
    ELSE app.dstFileName

\* The files attempt i wrote other than its temporary file: the file
\* retrieveArtifact opened and the target of the rename.
WrittenBy(i) ==
    { localLog[k].name : k \in { j \in LocalIdx("open") \cup LocalIdx("rename") :
                                    /\ localLog[j].idx = i
                                    /\ localLog[j].res = "ok"
                                    /\ localLog[j].name # <<"tmp", i>> } }

\* C22: with a local destination, the file checked before the build and the
\* file written for an architecture are both <destination>-<arch> when more
\* than one architecture is requested, and the destination itself otherwise.
C22_SuffixedDestinationNames ==
    app.dstFileName # <<>> =>
        /\ \A k \in LocalIdx("stat") : localLog[k].name = SuffixedName(k)
        /\ \A i \in 1..Len(app.archsToBuild) :
              /\ WrittenBy(i) \subseteq {SuffixedName(i)}
              /\ (i <= Len(outcomes) /\ outcomes[i] = NoErr) =>
                    /\ WrittenBy(i) = {SuffixedName(i)}
                    /\ SuffixedName(i) \in files

\* Two architectures were built into out-amd64 and out-arm64 after both
\* names were checked.
C22_Witness ==
    /\ app.dstFileName = <<"out">>
    /\ app.archsToBuild = <<"amd64", "arm64">>
    /\ Cardinality(LocalIdx("stat")) = 2
    /\ AllAttempted
    /\ FailedAttempts = {}
    /\ WrittenBy(1) = {<<"out", "-", "amd64">>}
    /\ WrittenBy(2) = {<<"out", "-", "arm64">>}

(***************************************************************************)
(* Errors of the archiver (ArSpec)                                         *)
(***************************************************************************)
\* Every member written so far has its content: Close finds nothing missing.
AllFull(entries) == \A i \in 1..Len(entries) : entries[i].full

\* C23: WriteFiles with a pattern that matches nothing fails with a
\* not-found error that carries the pattern, and writes no entry.
C23_NoMatchNotFound ==
    /\ \A p \in Patterns :
          Glob(fsys, p) = <<>> =>
              \A r \in {WriteFiles(theArchiver, p)} :
                  /\ r.err = "not exist"
                  /\ r.errArg = {[path |-> p, flag |-> ""]}
                  /\ r.entries = w.entries
                  /\ r.archived = archived
    /\ werr = "not exist" =>
          \E a \in werrArg :
              /\ werrArg = {a}
              /\ a.path \in Patterns
              /\ Glob(fsys, a.path) = <<>>

\* A call that matched nothing came after calls that wrote entries.
C23_Witness ==
    /\ werr = "not exist"
    /\ werrArg = {[path |-> <<"a", "b", "c">>, flag |-> ""]}
    /\ ncalls >= 2
    /\ Len(w.entries) >= 2

\* The type flag the claim expects in the error, by kind of file.
DeviceFlag == ("pipe" :> "fifo") @@ ("blockdev" :> "block") @@ ("chardev" :> "char")

\* The step is a WriteFiles call that returned the error msg.
WriteFilesFailed(msg) == ncalls' = ncalls + 1 /\ werr' = msg

\* C24: WriteFiles on a named pipe, a device or a character device fails
\* with the unsupported-type error carrying the path and the type flag,
\* writes nothing for that path and leaves the entries written before as
\* they were, so that the archive closes without error.
C24_UnsupportedTypeKeepsArchive ==
    /\ [](\A p \in Universe :
            (Stat(fsys, p) \in DOMAIN DeviceFlag /\ headerErr(theArchiver) = "") =>
                \A r \in {WriteFiles(theArchiver, p)} :
                    /\ r.err = "unsupported file type"
                    /\ r.errArg = {[path |-> p, flag |-> DeviceFlag[Stat(fsys, p)]]}
                    /\ \A i \in 1..Len(r.entries) : r.entries[i].name # p)
    /\ [][WriteFilesFailed("unsupported file type") =>
            /\ \E a \in werrArg' :
                  /\ werrArg' = {a}
                  /\ Stat(fsys, a.path) \in DOMAIN DeviceFlag
                  /\ a.flag = DeviceFlag[Stat(fsys, a.path)]
                  /\ \A i \in 1..Len(w'.entries) : w'.entries[i].name # a.path
            /\ Len(w'.entries) >= Len(w.entries)
            /\ SubSeq(w'.entries, 1, Len(w.entries)) = w.entries
            /\ (AllFull(w.entries) /\ ~w.closed) =>
                  /\ AllFull(w'.entries)
                  /\ ~w'.closed
                  /\ headerErr([entries |-> w'.entries, closed |-> w'.closed]) = ""]_vars

\* The second call met the character device a/b after it had written a/,
\* and the first call's entries are all there.
C24_Witness ==
    /\ werr = "unsupported file type"
    /\ werrArg = {[path |-> <<"a", "b">>, flag |-> "char"]}
    /\ ncalls = 2
    /\ Len(w.entries) >= 3
    /\ AllFull(w.entries)
    /\ Close(theArchiver).err = ""

\* C25: no archive holds a symlink record: a path that is a symbolic link to
\* a regular file is written as a regular-file entry with the content read
\* through the link.
C25_SymlinkWrittenAsRegular ==
    \A i \in 1..Len(w.entries) :
        /\ w.entries[i].type \in {"reg", "dir"}
        /\ Stat(fsys, w.entries[i].name) = "symlink" =>
              /\ w.entries[i].type = "reg"
              /\ w.entries[i].full
              /\ memberBytes(w.entries[i]) =
                     <<[hdr |-> w.entries[i].name, typeflag |-> "reg"],
                       [content |-> w.entries[i].name]>>

\* The link a/b/c was archived below the directories a/ and a/b/.
C25_Witness ==
    /\ fsys[<<"a", "b", "c">>] = "symlink"
    /\ Len(w.entries) = 3
    /\ w.entries[3].name = <<"a", "b", "c">>
    /\ w.entries[3].type = "reg"
    /\ werr = ""

(***************************************************************************)
(* Requests of the context uploader (UpSpec)                               *)
(***************************************************************************)
RequestIdx(method) == { i \in 1..Len(requests) : requests[i].method = method }

\* C26: no PUT to an upload location carries the client's bearer
\* authentication header, whatever token the client is configured with: the
\* headers of the PUT are the same for every token.
C26_PutWithoutBearerToken ==
    \A i \in RequestIdx("PUT") :
        /\ \A x \in requests[i].header : x.name # "Authorization"
        /\ requests[i].header =
               {[name |-> "Content-Type", value |-> <<"application/octet-stream">>]}

\* A client with a token asked for the location with it and sent the PUT.
C26_Witness ==
    /\ bearerToken = "token-1"
    /\ \E i \in RequestIdx("PUT") :
          [name |-> "Authorization", value |-> <<"BEARER", "token-1">>]
              \in requests[i - 1].header

\* The requests sent by the calls of a list of results.
RECURSIVE SentBy(_)
SentBy(rs) == IF rs = <<>> THEN 0 ELSE Head(rs).sent + SentBy(Tail(rs))

\* C27: UploadBuildContext called with no path fails with the error for no
\* paths specified before any I/O: no temporary file is made and no request
\* is sent.
C27_NoPathsBeforeAnyIO ==
    /\ \A i \in 1..Len(upRet) :
          upRet[i].paths = <<>> =>
              /\ upRet[i].err = "no paths specified"
              /\ ~upRet[i].tmp
              /\ upRet[i].sent = 0
              /\ upRet[i].puts = 0
              /\ upRet[i].reply = ""
              /\ upRet[i].digest = ""
    /\ up.pc # "idle" => up.paths # <<>>
    /\ Len(requests) = SentBy(upRet) + (CASE up.pc = "location" -> 1
                                           [] up.pc = "put"      -> 2
                                           [] OTHER              -> 0)

\* A call without paths came after an upload: the requests are the upload's.
C27_Witness ==
    /\ Len(upRet) = 2
    /\ upRet[1].puts = 1
    /\ upRet[2].paths = <<>>
    /\ upRet[2].err = "no paths specified"
    /\ Len(requests) = 2

(***************************************************************************)
(* The build context and the signed image of the orchestrator (AppSpec)    *)
(***************************************************************************)
\* getFiles returned no list: the definition references no local files.
NoContextFiles == \E k \in TraceIdx("getfiles") : trace[k].ref = "nil"

\* C28: when the build definition references no local files, no build
\* context is uploaded, the run goes on to the builds without error, every
\* submit carries no context digest, and no delete request is issued.
C28_NoFilesNoContext ==
    NoContextFiles =>
        /\ TraceIdx("upload") = {}
        /\ buildContext = ""
        /\ ret.msg # "error uploading build context"
        /\ pc = "done" => (idx >= 1 \/ ret.msg = "error initializing signer")
        /\ \A k \in TraceIdx("submit") : trace[k].digest = ""
        /\ TraceIdx("delete") = {}

\* Two architectures were built without a build context.
C28_Witness ==
    /\ NoContextFiles
    /\ AllAttempted
    /\ Len(app.archsToBuild) = 2
    /\ FailedAttempts = {}
    /\ Cardinality(TraceIdx("submit")) = 2

\* The calls to the local file system that attempt i made with op.
LocalBy(i, op) == { k \in LocalIdx(op) : localLog[k].idx = i }

StageScoped(args) == Len(cleanArgs(args)) = 2 /\ cleanArgs(args)[1] = "stage"

\* The source paths of the entries of the sections that are not scoped to a
\* stage, in the order of the definition.
RECURSIVE UnscopedPaths(_)
UnscopedPaths(d) ==
    IF d = <<>> THEN <<>>
    ELSE (IF StageScoped(Head(d).args) THEN <<>> ELSE sourcePaths(Head(d).files))
         \o UnscopedPaths(Tail(d))

\* C30: the file list used for the build context holds the source path of
\* every entry of every %files section that is not scoped to a build stage,
\* and no entry of a section that is scoped to a stage.
C30_UnscopedFilesOnly ==
    (fileList.called /\ fileList.err = "") =>
        fileList.files = UnscopedPaths(definition)

(***************************************************************************)
(* Errors of the local file system during an attempt                       *)
(***************************************************************************)
\* The calls that opened or stat-ed a destination file and failed.
LocalFailures ==
    { k \in 1..Len(localLog) :
        /\ localLog[k].op \in {"open", "lstat"}
        /\ localLog[k].idx >= 1
        /\ localLog[k].res = "error" }

\* C31: an error opening or stat-ing an architecture's destination file fails
\* that architecture's attempt only: it is recorded as that architecture's
\* error, and when Run has returned every architecture has been submitted.
C31_LocalErrorFailsAttemptOnly ==
    \A k \in LocalFailures :
        LET i == localLog[k].idx IN
        /\ Len(outcomes) >= i
        /\ outcomes[i] # NoErr
        /\ errs[archOf(i)] # NoErr
        /\ pc = "done" =>
              \A j \in 1..Len(app.archsToBuild) :
                  \E t \in TraceIdx("submit") : trace[t].idx = j

(***************************************************************************)
(* Errors of the services during an attempt                                *)
(***************************************************************************)
\* The message of the error buildArch returns when a step fails.
StepErrors ==
    ("submit" :> {"error submitting remote build"})
    @@ ("output" :> {"error streaming remote build output"})
    @@ ("status" :> {"error getting remote build status"})
    @@ ("download" :> {"error retrieving build artifact"})
    @@ ("sign" :> {"signing error"})
    @@ ("publish" :> {"error uploading image", "file rename error"})

\* The steps that returned an error.
FailedSteps == { k \in 1..Len(trace) : trace[k].op \in DOMAIN StepErrors /\ ~trace[k].ok }

\* The errors an attempt can end with once its build has succeeded.
AfterBuildErrors ==
    {"create temp", "error opening file for reading"}
    \cup StepErrors["download"] \cup StepErrors["sign"] \cup StepErrors["publish"]

PrivateKeys == { stripPublicKeys(keyring)[i] : i \in 1..Len(stripPublicKeys(keyring)) }

\* C33: a selection by fingerprint, by index or at the prompt yields an
\* entity of the keyring's private-key list, or fails with its error (key not
\* found when the fingerprint or the index matches no entry, index out of
\* range when the number typed is out of bounds); it never ends with no
\* entity and no error, and it never crashes.
C33_SelectionYieldsKeyOrError ==
    selected.reached =>
        /\ ~selected.sel.panic
        /\ ~selected.panic
        /\ selected.sel.entity # Nil \/ selected.sel.err # ""
        /\ selected.sel.entity # Nil =>
              selected.sel.err = "" /\ selected.sel.entity \in PrivateKeys
        /\ (selected.sel.entity = Nil /\ selector.kind \in {"fingerprint", "index"}) =>
              selected.sel.err = "key not found"
        /\ (selected.sel.entity = Nil /\ selector.kind = "interactive"
              /\ Atoi(selector.input).err = "") =>
              selected.sel.err = "index out of range"

(***************************************************************************)
(* Further properties of the orchestrator (AppSpec)                        *)
(***************************************************************************)
\* C34: once a delete request for the build context has been issued, no later
\* submit of the same run names that context's digest.
C34_NoSubmitAfterDelete ==
    \A d \in TraceIdx("delete") : \A k \in TraceIdx("submit") :
        d < k => trace[k].digest # trace[d].digest

\* The architectures build's map holds an error for.
RecordedFailures == { a \in DOMAIN errs : errs[a] # NoErr }

\* The attempts whose buildArch returned an error.
BuildFailures ==
    { i \in FailedAttempts : outcomes[i].msg # "error opening file for reading" }

\* C35: whatever the list of architectures, one that names an architecture
\* twice included, the error of every failed attempt is kept until build
\* aggregates them: as many failures are recorded as attempts have failed,
\* and after two failed attempts Run does not return one attempt's error.
C35_EveryFailureKept ==
    /\ Cardinality(RecordedFailures) = Cardinality(BuildFailures)
    /\ (pc = "done" /\ Cardinality(BuildFailures) >= 2) =>
          \A i \in BuildFailures : ret # outcomes[i]

\* C36: an attempt whose downloaded image has a SHA-256 that differs from the
\* checksum of the build status is not classified as succeeded.
C36_MismatchNeverSucceeds ==
    verified = "image checksum mismatch" => attempts[idx].class # "succeeded"

\* The uploads of an image file to the destination library reference.
LibraryUploads ==
    { k \in TraceIdx("publish") : trace[k].ref = app.LibraryRef }

\* C37: when signing is requested and the destination is a library reference,
\* no submit names that reference, and every upload to it is of the file the
\* same attempt has just signed with success.
C37_OnlySignedImagePublished ==
    (app.signing /\ app.LibraryRef # "") =>
        /\ \A k \in TraceIdx("submit") : trace[k].ref = ""
        /\ \A k \in LibraryUploads :
              /\ k > 1
              /\ trace[k - 1].op = "sign"
              /\ trace[k - 1].idx = trace[k].idx
              /\ trace[k - 1].ok

\* A signed build whose image was uploaded to the library reference.
C37_Witness ==
    /\ app.signing
    /\ app.LibraryRef # ""
    /\ \E k \in LibraryUploads : trace[k].ok
    /\ \E k \in TraceIdx("submit") : trace[k].ok /\ trace[k].ref = ""
    /\ pc = "done"

\* C38: the temporary file created for a signed build is gone, removed or
\* renamed into place, once the attempt has ended, with or without an error.
C38_TempFileGoneAfterAttempt ==
    \A i \in 1..Len(outcomes) : <<"tmp", i>> \notin files

\* Attempt i's os.OpenFile of its destination file succeeded: the flags
\* O_CREATE and O_TRUNC have made the file, or emptied the one there was.
DestinationOpened(i) ==
    \E k \in LocalIdx("open") :
        /\ localLog[k].idx = i
        /\ localLog[k].name = dstFileNameOf(i)
        /\ localLog[k].res = "ok"

\* C39: a failed attempt leaves no partly written destination file and has
\* not touched the content of a destination file that was there before the
\* run: it has not created or truncated its destination file.
C39_FailedAttemptKeepsDestination ==
    \A i \in BuildFailures : ~DestinationOpened(i)

(***************************************************************************)
(* Further properties of the archiver (ArSpec)                             *)
(***************************************************************************)
\* The paths of the members whose header is in the archive.
EntryNames == { w.entries[i].name : i \in 1..Len(w.entries) }

\* C40: at every point the archiver's set of archived paths is the set of the
\* paths an entry was written for: no path is recorded without an entry, and
\* a call that fails part-way leaves no entry, and no header of an entry,
\* without its recorded path.
C40_ArchivedIsWritten ==
    archived = EntryNames

\* The paths of the members written with all of their content.
FullEntryNames == { w.entries[i].name : i \in { j \in 1..Len(w.entries) : w.entries[j].full } }

\* C40, amended: at every point the archiver's set of archived paths is the
\* set of the paths whose entry was written completely; a call that fails
\* while it writes an entry's content leaves that entry's header as the last
\* member of the archive, and its path is not recorded.
C40_ArchivedIsWrittenCompletely ==
    /\ archived = FullEntryNames
    /\ \A i \in 1..Len(w.entries) :
          ~w.entries[i].full =>
              /\ i = Len(w.entries)
              /\ w.entries[i].name \notin archived

\* A call wrote two entries and failed in the content of a third.
C40_Witness ==
    /\ werr = "read error"
    /\ Len(w.entries) = 3
    /\ ~w.entries[3].full
    /\ archived = {w.entries[1].name, w.entries[2].name}

====
